---- MODULE Spec2Model ----
(***************************************************************************)
(* Model of the Substance Designer MCP plugin (src/plugin/__init__.py):    *)
(* the framed TCP transport (SDMCPServer), the Qt main-thread execution    *)
(* bridge (_Invoker / MainThreadDispatcher), the command registry          *)
(* (CommandHandler.dispatch) and the node-creation handlers.               *)
(*                                                                         *)
(* Spec        the serve thread, the bridge and the main thread.           *)
(* SpecCreate  the handlers that call the host's newNode primitive.        *)
(***************************************************************************)
EXTENDS Integers, Sequences, FiniteSets, TLC

\* ------------------------------------------------------------------------
\* Program constants
\* ------------------------------------------------------------------------
HEADER_SIZE == 4

MAX_MSG_SIZE == 100 * 1024 * 1024

\* ------------------------------------------------------------------------
\* Bounds of the model
\* ------------------------------------------------------------------------
\* connections accepted by the serve loop in one behaviour
MaxConns == 2

\* recv() calls that return fewer bytes than asked for, per connection
MaxRecvs == 2

\* ------------------------------------------------------------------------
\* Inputs
\* ------------------------------------------------------------------------
\* 4-byte headers a client may send (prefixes of them when it stops early)
HeaderSamples ==
    { <<0, 0, 0, 0>>,          \* L = 0
      <<0, 0, 0, 1>>,          \* L = 1
      <<0, 0, 0, 64>>,         \* L = 64
      <<6, 64, 0, 0>>,         \* L = 100 MiB, the cap itself
      <<6, 64, 0, 1>>,         \* L = cap + 1
      <<127, 255, 255, 255>> } \* L = 2^31 - 1

\* the value of the "type" member of a request object
NoType      == [kind |-> "absent", name |-> ""]
TypeStr(s)  == [kind |-> "string", name |-> s]
TypeNumber  == [kind |-> "number", name |-> "5"]
TypeList    == [kind |-> "list",   name |-> "[]"]

\* payloads a client may send, by what json.loads makes of them; minlen is
\* the least number of bytes such a payload takes
Payload(j, t, p, n) == [json |-> j, type |-> t, params |-> p, minlen |-> n]

PayloadSamples ==
    { Payload("bad_utf8", NoType, "none", 1),
      Payload("bad_json", NoType, "none", 1),
      Payload("array",    NoType, "none", 2),
      Payload("number",   NoType, "none", 1),
      Payload("string",   NoType, "none", 2),
      Payload("null",     NoType, "none", 4),
      Payload("object",   NoType, "match", 2),
      Payload("object",   TypeStr("bogus_command"), "match", 24),
      Payload("object",   TypeList, "match", 11),
      Payload("object",   TypeStr("get_scene_info"), "match", 25),
      Payload("object",   TypeStr("create_batch_graph"), "match", 29),
      Payload("object",   TypeStr("create_batch_graph"), "mismatch", 29) }

NoPayload == Payload("none", NoType, "none", 0)

\* ------------------------------------------------------------------------
\* State
\* ------------------------------------------------------------------------
VARIABLES
    running,         \* SDMCPServer.running
    invoker,         \* _Invoker.instance() is not None
    pc,              \* where the serve thread (SD-MCP-Serve) is
    nconn,           \* connections accepted so far
    conn,            \* the accepted connection (the last one, once closed)
    queue,           \* Invoker._queue: units put and not yet taken
    signals,         \* invoke_signal emissions not yet delivered to _execute
    work,            \* unit -> the (cmd_type, params) its _call closes over
    done,            \* units whose done Event is set
    result_holder,   \* unit -> result_holder of its dispatch call
    mainUnit,        \* unit whose handler the main thread is running, or 0
    enqLog,          \* history: units in the order of queue.put
    execLog,         \* history: begin and end of every _call
    calls,           \* history: handler bodies entered, with the thread
    graphVer,        \* host graphs: number of mutations applied
    lib_url_cache,   \* CommandHandler._lib_url_cache: keywords cached
    host,            \* SpecCreate: the host graph's getNodeDefinitions
    newNodeCalls,    \* SpecCreate: history of newNode(kind) calls
    lastResult,      \* SpecCreate: what the last handler returned or raised
    sdGraph,         \* SpecOps: the graph a single-operation command works on
    lastCall,        \* SpecOps: the last mutating host-API call made
    opResult,        \* SpecOps: what the command returned or raised
    batchRun,        \* SpecBatch: the run of one batch command
    paramRun,        \* SpecCoerce: one parameter given to _set_node_params
    wireRun,         \* SpecSerial: one response given to json.dumps
    libRun,          \* SpecLib: the library, _lib_url_cache and the commands run
    sendRun,         \* SpecBridge: one call of the bridge's _send
    phaseRun,        \* SpecPhase: one batch command, statement by statement
    concRun          \* SpecConc: bridge threads calling _send, and the plugin

transportVars ==
    << running, invoker, pc, nconn, conn, queue, signals, work, done,
       result_holder, mainUnit, enqLog, execLog, calls, graphVer,
       lib_url_cache >>

createVars == << host, newNodeCalls, lastResult >>

opsVars == << sdGraph, lastCall, opResult >>

batchVars == << batchRun >>

coerceVars == << paramRun >>

serialVars == << wireRun >>

libVars == << libRun >>

bridgeVars == << sendRun >>

lateVars == << phaseRun, concRun >>

auxVars == << coerceVars, serialVars, libVars, bridgeVars, lateVars >>

\* what the transport leaves alone
handlerVars == << createVars, opsVars, batchVars, auxVars >>

vars == << transportVars, createVars, opsVars, batchVars, auxVars >>

MainThread  == "MainThread"
ServeThread == "SD-MCP-Serve"

\* ------------------------------------------------------------------------
\* Command registry
\* ------------------------------------------------------------------------
\* CommandHandler.HANDLERS: command kind -> bound method (of the same name)
HANDLERS ==
    [ k \in { "get_scene_info", "create_package", "create_graph",
              "delete_graph", "open_graph", "get_graph_info",
              "save_package", "graph_snapshot", "diagnostic",
              "list_node_definitions", "create_node",
              "create_instance_node", "create_output_node", "delete_node",
              "move_node", "duplicate_node", "get_node_info",
              "get_library_nodes", "connect_nodes", "disconnect_nodes",
              "set_parameter", "set_graph_output_size",
              "create_batch_graph", "build_material_graph",
              "build_heightmap_graph", "list_recipes", "get_recipe_info",
              "apply_recipe", "smart_connect", "arrange_nodes",
              "execute_code" } |-> k ]

\* exceptions and responses; available is the list of kinds in the message
Err(m, av) == [message |-> m, available |-> av]
NoErr      == Err("", {})

Response(st, m, av, res) ==
    [status |-> st, message |-> m, available |-> av, result |-> res]

\* where CommandHandler.dispatch(cmd_type, params) ends up
\*   "unhashable"  HANDLERS.get raises TypeError (a list or dict as key)
\*   "unknown"     no handler: ValueError listing sorted(HANDLERS.keys())
\*   "typeerror"   handler(**params) cannot bind params: TypeError
\*   "invoke"      the handler body runs
Lookup(cmd) ==
    IF cmd.type.kind = "list" THEN "unhashable"
    ELSE IF ~(cmd.type.kind = "string" /\ cmd.type.name \in DOMAIN HANDLERS)
         THEN "unknown"
    ELSE IF cmd.params # "match" THEN "typeerror"
    ELSE "invoke"

\* the exception dispatch raises before any handler body runs
LookupError(cmd) ==
    CASE Lookup(cmd) = "unhashable" -> Err("unhashable type", {})
      [] Lookup(cmd) = "unknown"    -> Err("Unknown command", DOMAIN HANDLERS)
      [] Lookup(cmd) = "typeerror"  -> Err("TypeError", {})
      [] OTHER                      -> NoErr

\* what a handler body may touch: the host graphs, the library url cache
MutatesGraph(h) == h \in { "create_batch_graph" }
MutatesCache(h) == h \in { "create_batch_graph" }

\* ------------------------------------------------------------------------
\* Framing
\* ------------------------------------------------------------------------
\* struct.unpack(">I", header)[0]
Unpack(h) == h[1] * 16777216 + h[2] * 65536 + h[3] * 256 + h[4]

\* _recv_framed without the size cap
HeaderVerdictNoCap(msg_len) ==
    IF msg_len = 0 THEN "none" ELSE "read"

\* _recv_framed after the header: return None, raise ValueError, read on
HeaderVerdict(msg_len) ==
    IF msg_len = 0 THEN "none"
    ELSE IF msg_len > MAX_MSG_SIZE THEN "raise"
    ELSE "read"

IsPrefix(s, t) == Len(s) <= Len(t) /\ SubSeq(t, 1, Len(s)) = s

\* sizes of the chunk one recv(need) call may return
ChunkSizes(need) == { c \in {1, need - 1, need} : c >= 1 }

NewConn(id, prev) ==
    [ id |-> id, prev |-> prev, buf |-> << >>, msg_len |-> -1, got |-> 0,
      nrecv |-> 0, payload |-> NoPayload, dispatched |-> 0, unit |-> 0,
      responses |-> << >>, sendFailed |-> FALSE, closed |-> FALSE,
      end |-> "open" ]

\* ------------------------------------------------------------------------
\* Spec: initial state
\* ------------------------------------------------------------------------
\* after initializeSDPlugin: the invoker was built (or could not be), the
\* listener is bound and the serve thread is in its loop
TransportInit ==
    /\ running = TRUE
    /\ invoker \in BOOLEAN
    /\ pc = "accept"
    /\ nconn = 0
    /\ conn = [NewConn(0, "none") EXCEPT !.closed = TRUE, !.end = "none"]
    /\ queue = << >>
    /\ signals = 0
    /\ work = << >>
    /\ done = {}
    /\ result_holder = << >>
    /\ mainUnit = 0
    /\ enqLog = << >>
    /\ execLog = << >>
    /\ calls = << >>
    /\ graphVer = 0
    /\ lib_url_cache = {}

NoResult == [handler |-> "none", outcome |-> "none", created |-> 0, failed |-> 0]

\* no single-operation command has run: no graph, no host call, no result
NoGraph == [exists |-> FALSE, nodes |-> << >>, ver |-> 0, reads |-> "ok"]
NoCall  == [api |-> "none", node |-> "", port |-> "", to_node |-> "", to_port |-> "",
            boxed |-> ""]
NoOp    == [cmd |-> "none", status |-> "none", error |-> "", available |-> {}]

OpsIdle ==
    /\ sdGraph = NoGraph
    /\ lastCall = NoCall
    /\ opResult = NoOp

\* no batch command has run
NoBatch ==
    [cmd |-> "none", specs |-> << >>, conns |-> << >>, outcome |-> "none",
     cause |-> "", nodes |-> << >>, alias_map |-> {}, conn_results |-> << >>,
     graph |-> [kept |-> FALSE, nodes |-> {}, conns |-> {}],
     report |-> [present |-> FALSE, nodes_created |-> 0, nodes_failed |-> 0,
                 connections_ok |-> 0, connections_failed |-> 0, node_map |-> {},
                 keys |-> {}, nodes |-> << >>, failed_nodes |-> << >>,
                 connections |-> << >>]]

BatchIdle == batchRun = NoBatch

\* _set_node_params has been given no parameter
NoParam ==
    [pc |-> "idle", param_id |-> "", form |-> "bare", tag |-> "", value |-> "",
     category |-> "none", sd_type_id |-> "", ptype |-> "", boxed |-> "",
     setter |-> "", result |-> ""]

CoerceIdle == paramRun = NoParam

\* _handle_client has serialized no response
NoWire == [pc |-> "idle", result |-> << >>, outcome |-> "none", sent |-> << >>]

SerialIdle == wireRun = NoWire

\* no command has used the library: no package with a graph is loaded,
\* _lib_url_cache = {}
NoLib ==
    [present |-> {}, cache |-> << >>, resolutions |-> << >>, nodes |-> << >>,
     last |-> [op |-> "none", keyword |-> "", error |-> "", created |-> "",
               count |-> 0]]

LibIdle == libRun = NoLib

\* the bridge has been given no command
NoSend ==
    [pc |-> "idle", cmd_type |-> "", attempt |-> 0, attempts |-> << >>,
     returned |-> ""]

BridgeIdle == sendRun = NoSend

\* SpecPhase at rest: no batch command was received
NoPhase ==
    [cmd |-> "none", phase |-> "Init", specs |-> << >>, conns |-> << >>,
     i |-> 1, j |-> 1, nodes |-> << >>, alias_map |-> {}, results |-> << >>,
     raised |-> "", log |-> << >>]

PhaseIdle == phaseRun = NoPhase

\* bridge threads that call _send at the same time
MaxCallers == 2

Callers == 1..MaxCallers

\* SpecConc at rest: no tool call was made, the plugin waits in accept
\* conns[t] is the socket of the attempt caller t is in: a caller opens a
\* socket only after the plugin closed the one before
NoConc ==
    [pc |-> [t \in Callers |-> "idle"], attempt |-> [t \in Callers |-> 0],
     returned |-> [t \in Callers |-> ""], lock |-> 0,
     conns |-> [t \in Callers |->
                  [sent |-> FALSE, reply |-> 0, closed |-> FALSE]],
     backlog |-> << >>, up |-> TRUE, serve |-> "accept", client |-> 0]

ConcIdle == concRun = NoConc

LateIdle ==
    /\ PhaseIdle
    /\ ConcIdle

AuxIdle ==
    /\ CoerceIdle
    /\ SerialIdle
    /\ LibIdle
    /\ BridgeIdle
    /\ LateIdle

Init ==
    /\ TransportInit
    /\ host = [defs |-> {"sbs::compositing::output"}, mode |-> "ok"]
    /\ newNodeCalls = {}
    /\ lastResult = NoResult
    /\ OpsIdle
    /\ BatchIdle
    /\ AuxIdle

\* ------------------------------------------------------------------------
\* Serve thread: _serve_loop and _handle_client
\* ------------------------------------------------------------------------
\* the finally clause of _handle_client: client.close(), back to the loop
Closed(c, end) == [c EXCEPT !.closed = TRUE, !.end = end, !.nrecv = 0]

\* _send_framed(client, response): sendall writes the frame, or raises when
\* the peer is gone (ok = FALSE), which _handle_client catches
Sent(c, resp, ok) ==
    IF ok THEN [c EXCEPT !.responses = Append(@, resp)]
          ELSE [c EXCEPT !.sendFailed = TRUE]

\* what _execute_safe makes of result_holder once dispatch has returned
ResponseOf(rh) ==
    IF rh.exc # NoErr
       THEN Response("error", rh.exc.message, rh.exc.available, 0)
       ELSE Response("success", "", {}, rh.result)

\* dispatch without the test for the main thread: fn is called in place
DispatchRouteNoThreadCheck(thread) == "direct"

\* dispatch without the test for a missing invoker: the unit is scheduled
DispatchRouteNoInvokerCheck(thread) ==
    IF thread = MainThread THEN "direct" ELSE "schedule"

\* MainThreadDispatcher.dispatch: which way a call from this thread goes
DispatchRoute(thread) ==
    IF thread = MainThread THEN "direct"
    ELSE IF ~invoker THEN "unavailable"
    ELSE "schedule"

\* listener.accept() in _serve_loop, then the first lines of _handle_client
Accept ==
    /\ pc = "accept"
    /\ running
    /\ nconn < MaxConns
    /\ nconn' = nconn + 1
    /\ conn' = NewConn(nconn + 1, conn.end)
    /\ pc' = "recv_header"
    /\ UNCHANGED << running, invoker, queue, signals, work, done,
                    result_holder, mainUnit, enqLog, execLog, calls,
                    graphVer, lib_url_cache, handlerVars >>

\* one recv() of _recv_exact(sock, HEADER_SIZE) that returns data; when the
\* header is complete, _recv_framed decodes and judges it
RecvHeader ==
    /\ pc = "recv_header"
    /\ \E h \in HeaderSamples, k \in 1..HEADER_SIZE :
         /\ IsPrefix(conn.buf, h)
         /\ Len(conn.buf) + k <= HEADER_SIZE
         /\ LET buf == SubSeq(h, 1, Len(conn.buf) + k) IN
            IF Len(buf) < HEADER_SIZE
            THEN /\ conn.nrecv < MaxRecvs
                 /\ conn' = [conn EXCEPT !.buf = buf, !.nrecv = @ + 1]
                 /\ pc' = "recv_header"
            ELSE LET c == [conn EXCEPT !.buf = buf, !.msg_len = Unpack(buf)] IN
                 CASE HeaderVerdict(c.msg_len) = "none" ->
                        /\ conn' = Closed(c, "zero_length")
                        /\ pc' = "accept"
                   [] HeaderVerdict(c.msg_len) = "raise" ->
                        /\ conn' = Closed(c, "too_large")
                        /\ pc' = "accept"
                   [] OTHER ->
                        /\ conn' = c
                        /\ pc' = "recv_payload"
    /\ UNCHANGED << running, invoker, nconn, queue, signals, work, done,
                    result_holder, mainUnit, enqLog, execLog, calls,
                    graphVer, lib_url_cache, handlerVars >>

\* one recv() of _recv_exact(sock, msg_len) that returns data
RecvPayload ==
    /\ pc = "recv_payload"
    /\ \E k \in ChunkSizes(conn.msg_len - conn.got) :
         IF conn.got + k < conn.msg_len
         THEN /\ conn.nrecv < MaxRecvs
              /\ conn' = [conn EXCEPT !.got = @ + k, !.nrecv = @ + 1]
              /\ pc' = "recv_payload"
         ELSE /\ conn' = [conn EXCEPT !.got = @ + k, !.nrecv = 0]
              /\ pc' = "parse"
    /\ UNCHANGED << running, invoker, nconn, queue, signals, work, done,
                    result_holder, mainUnit, enqLog, execLog, calls,
                    graphVer, lib_url_cache, handlerVars >>

\* a recv() that returns no data: the peer closed (b"", _recv_exact returns
\* None), the read timed out (socket.timeout) or the connection was reset
\* (ConnectionResetError); _handle_client returns or catches, then closes
RecvFails ==
    /\ pc \in {"recv_header", "recv_payload"}
    /\ \E why \in {"peer_closed", "read_timeout", "reset"} :
         conn' = Closed(conn, why)
    /\ pc' = "accept"
    /\ UNCHANGED << running, invoker, nconn, queue, signals, work, done,
                    result_holder, mainUnit, enqLog, execLog, calls,
                    graphVer, lib_url_cache, handlerVars >>

\* what a handler body may do before it returns or raises
HandlerOutcomes(h) ==
    { [raise |-> r, graph |-> g, cache |-> c] :
        r \in BOOLEAN,
        g \in (IF MutatesGraph(h) THEN BOOLEAN ELSE {FALSE}),
        c \in (IF MutatesCache(h) THEN BOOLEAN ELSE {FALSE}) }

\* result_holder after fn = CommandHandler.dispatch ran for unit u with
\* outcome o of the handler body (o is not looked at when the lookup fails)
HolderAfter(u, cmd, o) ==
    IF Lookup(cmd) # "invoke" THEN [result |-> 0, exc |-> LookupError(cmd)]
    ELSE IF o.raise THEN [result |-> 0, exc |-> Err("handler raised", {})]
    ELSE [result |-> u, exc |-> NoErr]

\* the exception json.loads(payload.decode('utf-8')) raises, if any
DecodeError(p) ==
    CASE p.json = "bad_utf8" -> "UnicodeDecodeError"
      [] p.json = "bad_json" -> "JSONDecodeError"
      [] OTHER               -> "none"

\* an except clause that names JSONDecodeError only
CaughtOnlyJsonError(e) == e = "JSONDecodeError"

\* the except clause around json.loads in _handle_client
CaughtAsInvalidJson(e) == e \in {"JSONDecodeError", "UnicodeDecodeError"}

\* _execute_safe does not return a response but raises: command.get fails
\* in the try block and again in the except clause that logs the error
ExecuteSafeEscapes(p) == p.json # "object"

\* the payload is complete: json.loads, then _execute_safe up to the point
\* where dispatch has put the unit of work on the invoker's queue
Parse ==
    /\ pc = "parse"
    /\ \E p \in PayloadSamples, ok \in BOOLEAN :
         /\ p.minlen <= conn.msg_len
         /\ LET c   == [conn EXCEPT !.payload = p]
                cmd == [type |-> p.type, params |-> p.params, conn |-> conn.id]
                u   == Len(work) + 1
            IN
            CASE DecodeError(p) # "none" /\ CaughtAsInvalidJson(DecodeError(p)) ->
                   /\ conn' = Closed(Sent(c, Response("error", "Invalid JSON", {}, 0), ok),
                                     "invalid_json")
                   /\ pc' = "accept"
                   /\ UNCHANGED << queue, work, result_holder, enqLog, calls,
                                   graphVer, lib_url_cache >>
              [] DecodeError(p) # "none" /\ ~CaughtAsInvalidJson(DecodeError(p)) ->
                   \* the outer except Exception of _handle_client logs it
                   /\ conn' = Closed(c, "decode_raised")
                   /\ pc' = "accept"
                   /\ UNCHANGED << queue, work, result_holder, enqLog, calls,
                                   graphVer, lib_url_cache >>
              [] DecodeError(p) = "none" /\ ExecuteSafeEscapes(p) ->
                   /\ conn' = Closed(c, "execute_safe_raised")
                   /\ pc' = "accept"
                   /\ UNCHANGED << queue, work, result_holder, enqLog, calls,
                                   graphVer, lib_url_cache >>
              [] OTHER ->
                   CASE DispatchRoute(ServeThread) = "unavailable" ->
                          /\ conn' = Closed(Sent([c EXCEPT !.dispatched = @ + 1],
                                                 Response("error", "Qt invoker unavailable", {}, 0),
                                                 ok),
                                            "invoker_unavailable")
                          /\ pc' = "accept"
                          /\ UNCHANGED << queue, work, result_holder, enqLog,
                                          calls, graphVer, lib_url_cache >>
                     [] DispatchRoute(ServeThread) = "schedule" ->
                          /\ work' = Append(work, cmd)
                          /\ result_holder' = Append(result_holder,
                                                     [result |-> 0, exc |-> NoErr])
                          /\ queue' = Append(queue, u)
                          /\ enqLog' = Append(enqLog, u)
                          /\ conn' = [c EXCEPT !.dispatched = @ + 1, !.unit = u]
                          /\ pc' = "emit"
                          /\ UNCHANGED << calls, graphVer, lib_url_cache >>
                     [] OTHER ->
                          \* fn(*args, **kwargs) on the calling thread
                          \E o \in HandlerOutcomes(cmd.type.name) :
                            LET ran == Lookup(cmd) = "invoke" IN
                            /\ calls' = IF ran
                                        THEN Append(calls, [unit |-> 0,
                                                            handler |-> cmd.type.name,
                                                            thread |-> ServeThread])
                                        ELSE calls
                            /\ graphVer' = IF ran /\ o.graph THEN graphVer + 1
                                           ELSE graphVer
                            /\ lib_url_cache' = IF ran /\ o.cache
                                                THEN lib_url_cache \cup {"keyword"}
                                                ELSE lib_url_cache
                            /\ conn' = Closed(Sent([c EXCEPT !.dispatched = @ + 1],
                                                   ResponseOf(HolderAfter(0, cmd, o)), ok),
                                              "answered")
                            /\ pc' = "accept"
                            /\ UNCHANGED << queue, work, result_holder, enqLog >>
    /\ UNCHANGED << running, invoker, nconn, signals, done, mainUnit,
                    execLog, handlerVars >>

\* a signal that is not queued again while one is pending: emissions
\* made before the event loop delivered the last one are merged into it
EmitCoalesced ==
    /\ pc = "emit"
    /\ signals' = 1
    /\ pc' = "wait"
    /\ UNCHANGED << running, invoker, nconn, conn, queue, work, done,
                    result_holder, mainUnit, enqLog, execLog, calls,
                    graphVer, lib_url_cache, handlerVars >>

\* Invoker.schedule, second half: invoke_signal.emit(); dispatch then
\* blocks in done.wait(timeout=COMMAND_TIMEOUT)
Emit ==
    /\ pc = "emit"
    /\ signals' = signals + 1
    /\ pc' = "wait"
    /\ UNCHANGED << running, invoker, nconn, conn, queue, work, done,
                    result_holder, mainUnit, enqLog, execLog, calls,
                    graphVer, lib_url_cache, handlerVars >>

\* a connection kept open after the response: the next frame is read
WaitDoneKeepAlive ==
    /\ pc = "wait"
    /\ conn.unit \in done
    /\ \E ok \in BOOLEAN :
         conn' = [Sent(conn, ResponseOf(result_holder[conn.unit]), ok)
                    EXCEPT !.buf = << >>, !.msg_len = -1, !.got = 0, !.nrecv = 0]
    /\ pc' = "recv_header"
    /\ UNCHANGED << running, invoker, nconn, queue, signals, work, done,
                    result_holder, mainUnit, enqLog, execLog, calls,
                    graphVer, lib_url_cache, handlerVars >>

\* done.wait returns True: the result or the exception goes back through
\* _run_on_main and _execute_safe, the response is sent, the socket closed
WaitDone ==
    /\ pc = "wait"
    /\ conn.unit \in done
    /\ \E ok \in BOOLEAN :
         conn' = Closed(Sent(conn, ResponseOf(result_holder[conn.unit]), ok),
                        "answered")
    /\ pc' = "accept"
    /\ UNCHANGED << running, invoker, nconn, queue, signals, work, done,
                    result_holder, mainUnit, enqLog, execLog, calls,
                    graphVer, lib_url_cache, handlerVars >>

\* a dispatch that schedules its unit again when the wait times out
WaitTimeoutRetry ==
    /\ pc = "wait"
    /\ conn.unit \notin done
    /\ queue' = Append(queue, conn.unit)
    /\ enqLog' = Append(enqLog, conn.unit)
    /\ pc' = "emit"
    /\ UNCHANGED << running, invoker, nconn, conn, signals, work, done,
                    result_holder, mainUnit, execLog, calls, graphVer,
                    lib_url_cache, handlerVars >>

\* a wait without a timeout: done.wait() returns only when done is set
WaitNoTimeout ==
    /\ pc = "wait"
    /\ conn.unit \in done
    /\ conn.unit \notin done
    /\ UNCHANGED vars

\* a timeout that withdraws the unit from the queue before returning
WaitTimeoutCancel ==
    /\ pc = "wait"
    /\ conn.unit \notin done
    /\ \E ok \in BOOLEAN :
         conn' = Closed(Sent(conn, Response("error", "Main thread dispatch timed out", {}, 0),
                             ok),
                        "timeout")
    /\ pc' = "accept"
    /\ queue' = SelectSeq(queue, LAMBDA u : u # conn.unit)
    /\ UNCHANGED << running, invoker, nconn, signals, work, done,
                    result_holder, mainUnit, enqLog, execLog, calls,
                    graphVer, lib_url_cache, handlerVars >>

\* done.wait returns False after COMMAND_TIMEOUT: dispatch returns a
\* TimeoutError and leaves the unit where it is
WaitTimeout ==
    /\ pc = "wait"
    /\ conn.unit \notin done
    /\ \E ok \in BOOLEAN :
         conn' = Closed(Sent(conn, Response("error", "Main thread dispatch timed out", {}, 0),
                             ok),
                        "timeout")
    /\ pc' = "accept"
    /\ UNCHANGED << running, invoker, nconn, queue, signals, work, done,
                    result_holder, mainUnit, enqLog, execLog, calls,
                    graphVer, lib_url_cache, handlerVars >>

\* SDMCPServer.stop(), from uninitializeSDPlugin
Stop ==
    /\ running
    /\ running' = FALSE
    /\ UNCHANGED << invoker, pc, nconn, conn, queue, signals, work, done,
                    result_holder, mainUnit, enqLog, execLog, calls,
                    graphVer, lib_url_cache, handlerVars >>

\* _serve_loop leaves its while loop
ServeExit ==
    /\ pc = "accept"
    /\ ~running
    /\ pc' = "stopped"
    /\ UNCHANGED << running, invoker, nconn, conn, queue, signals, work,
                    done, result_holder, mainUnit, enqLog, execLog, calls,
                    graphVer, lib_url_cache, handlerVars >>

\* ------------------------------------------------------------------------
\* Main thread: the Qt event loop delivers one queued invoke_signal
\* ------------------------------------------------------------------------
\* a queue that hands out the unit put last
TakeLast(q) == q[Len(q)]

\* the unit Invoker._execute takes: queue.get_nowait()
Take(q) == Head(q)

\* Invoker._execute: take one unit and call it; _call runs
\* CommandHandler.dispatch, which fails at once or enters the handler body
MainExecute ==
    /\ signals > 0
    /\ mainUnit = 0
    /\ signals' = signals - 1
    /\ IF queue = << >>
       THEN UNCHANGED << queue, done, result_holder, mainUnit, execLog, calls >>
       ELSE LET u   == Take(queue)
                cmd == work[u]
            IN
            /\ queue' = Tail(queue)
            /\ IF Lookup(cmd) # "invoke"
               THEN /\ result_holder' =
                         [result_holder EXCEPT ![u] = HolderAfter(u, cmd, {})]
                    /\ done' = done \cup {u}
                    /\ execLog' = execLog \o << <<"begin", u>>, <<"end", u>> >>
                    /\ UNCHANGED << mainUnit, calls >>
               ELSE /\ calls' = Append(calls, [unit |-> u,
                                               handler |-> HANDLERS[cmd.type.name],
                                               thread |-> MainThread])
                    /\ mainUnit' = u
                    /\ execLog' = Append(execLog, <<"begin", u>>)
                    /\ UNCHANGED << done, result_holder >>
    /\ UNCHANGED << running, invoker, pc, nconn, conn, work, enqLog,
                    graphVer, lib_url_cache, handlerVars >>

\* a result_holder and a done event shared by all dispatch calls: the
\* outcome of a unit lands in the holder the latest caller waits on
MainHandlerEndSharedHolder ==
    /\ mainUnit # 0
    /\ \E o \in HandlerOutcomes(work[mainUnit].type.name) :
         /\ graphVer' = IF o.graph THEN graphVer + 1 ELSE graphVer
         /\ lib_url_cache' = IF o.cache THEN lib_url_cache \cup {"keyword"}
                             ELSE lib_url_cache
         /\ result_holder' = [result_holder EXCEPT
                                ![Len(result_holder)] =
                                    HolderAfter(mainUnit, work[mainUnit], o)]
    /\ done' = done \cup {mainUnit, Len(result_holder)}
    /\ execLog' = Append(execLog, <<"end", mainUnit>>)
    /\ mainUnit' = 0
    /\ UNCHANGED << running, invoker, pc, nconn, conn, queue, signals, work,
                    enqLog, calls, handlerVars >>

\* the handler body returns or raises; _call stores the outcome in
\* result_holder and sets done, and control returns to the event loop
MainHandlerEnd ==
    /\ mainUnit # 0
    /\ \E o \in HandlerOutcomes(work[mainUnit].type.name) :
         /\ graphVer' = IF o.graph THEN graphVer + 1 ELSE graphVer
         /\ lib_url_cache' = IF o.cache THEN lib_url_cache \cup {"keyword"}
                             ELSE lib_url_cache
         /\ result_holder' = [result_holder EXCEPT
                                ![mainUnit] = HolderAfter(mainUnit, work[mainUnit], o)]
    /\ done' = done \cup {mainUnit}
    /\ execLog' = Append(execLog, <<"end", mainUnit>>)
    /\ mainUnit' = 0
    /\ UNCHANGED << running, invoker, pc, nconn, conn, queue, signals, work,
                    enqLog, calls, handlerVars >>

Next ==
    \/ Accept
    \/ RecvHeader
    \/ RecvPayload
    \/ RecvFails
    \/ Parse
    \/ Emit
    \/ WaitDone
    \/ WaitTimeout
    \/ Stop
    \/ ServeExit
    \/ MainExecute
    \/ MainHandlerEnd

Spec == Init /\ [][Next]_vars

\* ------------------------------------------------------------------------
\* SpecCreate: the handlers that call graph.newNode
\* ------------------------------------------------------------------------
\* node specs in one batch request or recipe
MaxSpecs == 2

OutputKind == "sbs::compositing::output"

KindSamples ==
    { OutputKind, "sbs::compositing::uniform", "sbs::compositing::blend",
      "sbs::compositing::bogus" }

\* resource urls findResourceFromUrl finds, keywords _resolve_lib_url finds
FoundUrls     == { "pkg://lib/found" }
FoundKeywords == { "found_kw" }

NodeSpec(d, r, k) == [definition_id |-> d, res_url |-> r, lib_kw |-> k]

SpecSamples ==
    { NodeSpec(OutputKind, "", ""),
      NodeSpec("sbs::compositing::uniform", "", ""),
      NodeSpec("sbs::compositing::blend", "", ""),
      NodeSpec("sbs::compositing::bogus", "", ""),
      NodeSpec("sbs::compositing::bogus", "pkg://lib/found", ""),
      NodeSpec("sbs::compositing::uniform", "pkg://lib/missing", ""),
      NodeSpec("sbs::compositing::uniform", "", "found_kw"),
      NodeSpec("sbs::compositing::bogus", "", "missing_kw") }

SpecLists == UNION { [1..n -> SpecSamples] : n \in 0..MaxSpecs }

\* the host: defs is the set of kinds the graph can create (the output
\* kind always is one); mode says whether graph.getNodeDefinitions()
\* returns it, raises, or returns an empty list
InitCreate ==
    /\ TransportInit
    /\ host \in { [defs |-> d, mode |-> m] :
                    d \in { x \in SUBSET KindSamples : OutputKind \in x },
                    m \in {"ok", "raises", "empty"} }
    /\ newNodeCalls = {}
    /\ lastResult = NoResult
    /\ OpsIdle
    /\ BatchIdle
    /\ AuxIdle

\* list(graph.getNodeDefinitions()) when it does not raise
ReadDefs == IF host.mode = "empty" THEN {} ELSE host.defs

\* graph.newNode(kind): a node for a creatable kind; for any other kind
\* the host never returns
NewNode(kind) == IF kind \in host.defs THEN "node" ELSE "hang"

\* create_node: the validation before newNode; "reject" raises ValueError
CreateNodeCheck(definition_id) ==
    IF host.mode = "raises" THEN "pass"
    ELSE IF definition_id \notin ReadDefs THEN "reject"
    ELSE "pass"

\* create_node(definition_id)
CreateNode ==
    /\ lastResult.outcome # "hung"
    /\ \E definition_id \in KindSamples :
         IF CreateNodeCheck(definition_id) = "reject"
         THEN /\ lastResult' = [handler |-> "create_node", outcome |-> "raised",
                                created |-> 0, failed |-> 0]
              /\ UNCHANGED newNodeCalls
         ELSE /\ newNodeCalls' = newNodeCalls \cup {definition_id}
              /\ lastResult' =
                   [handler |-> "create_node",
                    outcome |-> IF NewNode(definition_id) = "hang"
                                THEN "hung" ELSE "returned",
                    created |-> IF NewNode(definition_id) = "hang" THEN 0 ELSE 1,
                    failed |-> 0]
    /\ UNCHANGED << host, transportVars, opsVars, batchVars, auxVars >>

\* create_batch_graph, apply_recipe: _known_defs, the empty set when
\* getNodeDefinitions raised
KnownDefs == IF host.mode = "raises" THEN {} ELSE ReadDefs

\* how a node spec is created, in the order the branches are tried
CreationMethod(spec) ==
    IF spec.definition_id = OutputKind THEN "output"
    ELSE IF spec.res_url # "" THEN "resource"
    ELSE IF spec.lib_kw # "" THEN "library"
    ELSE "kind"

\* the named-kind branch: "reject" raises ValueError for this spec
BatchKindCheck(defn_id) ==
    IF KnownDefs # {} /\ defn_id \notin KnownDefs THEN "reject" ELSE "pass"

\* one pass of the for loop over node specs:
\* the kind passed to newNode ("" when none) and how the spec ends
BatchSpec(spec) ==
    CASE CreationMethod(spec) = "output" ->
           [newNode |-> OutputKind,
            ends |-> IF NewNode(OutputKind) = "hang" THEN "hung" ELSE "created"]
      [] CreationMethod(spec) = "resource" ->
           [newNode |-> "",
            ends |-> IF spec.res_url \in FoundUrls THEN "created" ELSE "failed"]
      [] CreationMethod(spec) = "library" ->
           [newNode |-> "",
            ends |-> IF spec.lib_kw \in FoundKeywords THEN "created" ELSE "failed"]
      [] OTHER ->
           IF BatchKindCheck(spec.definition_id) = "reject"
           THEN [newNode |-> "", ends |-> "failed"]
           ELSE [newNode |-> spec.definition_id,
                 ends |-> IF NewNode(spec.definition_id) = "hang"
                          THEN "hung" ELSE "created"]

\* the for loop over node specs, from spec i on; it stops where the host hangs
RECURSIVE BatchNodes(_, _, _)
BatchNodes(specs, i, acc) ==
    IF i > Len(specs) \/ acc.outcome = "hung" THEN acc
    ELSE LET r == BatchSpec(specs[i]) IN
         BatchNodes(specs, i + 1,
            [calls   |-> IF r.newNode = "" THEN acc.calls
                         ELSE acc.calls \cup {r.newNode},
             created |-> acc.created + (IF r.ends = "created" THEN 1 ELSE 0),
             failed  |-> acc.failed + (IF r.ends = "failed" THEN 1 ELSE 0),
             outcome |-> IF r.ends = "hung" THEN "hung" ELSE "returned"])

BatchStart == [calls |-> {}, created |-> 0, failed |-> 0, outcome |-> "returned"]

\* create_batch_graph(graph_name, nodes=...), the node part
CreateBatchGraph ==
    /\ lastResult.outcome # "hung"
    /\ \E nodes \in SpecLists :
         LET r == BatchNodes(nodes, 1, BatchStart) IN
         /\ newNodeCalls' = newNodeCalls \cup r.calls
         /\ lastResult' = [handler |-> "create_batch_graph", outcome |-> r.outcome,
                           created |-> r.created, failed |-> r.failed]
    /\ UNCHANGED << host, transportVars, opsVars, batchVars, auxVars >>

\* apply_recipe(recipe_name), the node part; the recipe's node specs come
\* from RECIPE_REGISTRY, an unknown recipe name raises ValueError
ApplyRecipe ==
    /\ lastResult.outcome # "hung"
    /\ \/ /\ lastResult' = [handler |-> "apply_recipe", outcome |-> "raised",
                            created |-> 0, failed |-> 0]
          /\ UNCHANGED newNodeCalls
       \/ \E nodes \in SpecLists :
            LET r == BatchNodes(nodes, 1, BatchStart) IN
            /\ newNodeCalls' = newNodeCalls \cup r.calls
            /\ lastResult' = [handler |-> "apply_recipe", outcome |-> r.outcome,
                              created |-> r.created, failed |-> r.failed]
    /\ UNCHANGED << host, transportVars, opsVars, batchVars, auxVars >>

NextCreate ==
    \/ CreateNode
    \/ CreateBatchGraph
    \/ ApplyRecipe

SpecCreate == InitCreate /\ [][NextCreate]_vars

\* ------------------------------------------------------------------------
\* SpecOps: the single-operation commands; a behaviour is one command
\* against one graph of the host
\* ------------------------------------------------------------------------
\* nodes in the graph the command finds
MaxGraphNodes == 2

SYSTEM_PARAMS ==
    { "$outputsize", "$format", "$pixelsize", "$pixelratio",
      "$tiling", "$randomseed", "$time" }

Ports(i, o) == [inputs |-> i, outputs |-> o]

ATOMIC_PORTS ==
       ("sbs::compositing::blend"   :> Ports(<<"source", "destination", "opacity">>,
                                             <<"unique_filter_output">>))
    @@ ("sbs::compositing::levels"  :> Ports(<<"input1">>, <<"unique_filter_output">>))
    @@ ("sbs::compositing::curve"   :> Ports(<<"input1">>, <<"unique_filter_output">>))
    @@ ("sbs::compositing::hsl"     :> Ports(<<"input1">>, <<"unique_filter_output">>))
    @@ ("sbs::compositing::blur"    :> Ports(<<"input1">>, <<"unique_filter_output">>))
    @@ ("sbs::compositing::sharpen" :> Ports(<<"input1">>, <<"unique_filter_output">>))
    @@ ("sbs::compositing::warp"    :> Ports(<<"input1", "inputgradient">>,
                                             <<"unique_filter_output">>))
    @@ ("sbs::compositing::directionalwarp"
                                    :> Ports(<<"input1", "inputintensity">>,
                                             <<"unique_filter_output">>))
    @@ ("sbs::compositing::normal"  :> Ports(<<"input1">>, <<"unique_filter_output">>))
    @@ ("sbs::compositing::transformation"
                                    :> Ports(<<"input1">>, <<"unique_filter_output">>))
    @@ ("sbs::compositing::distance" :> Ports(<<"input1">>, <<"unique_filter_output">>))
    @@ ("sbs::compositing::grayscaleconversion"
                                    :> Ports(<<"input1">>, <<"unique_filter_output">>))
    @@ ("sbs::compositing::shuffle" :> Ports(<<"input1">>, <<"unique_filter_output">>))
    @@ ("sbs::compositing::emboss"  :> Ports(<<"input1">>, <<"unique_filter_output">>))
    @@ ("sbs::compositing::passthrough"
                                    :> Ports(<<"input1">>, <<"unique_filter_output">>))
    @@ ("sbs::compositing::uniform" :> Ports(<< >>, <<"unique_filter_output">>))
    @@ ("sbs::compositing::output"  :> Ports(<<"inputNodeOutput">>, << >>))
    @@ ("sbs::compositing::input_color"
                                    :> Ports(<< >>, <<"unique_filter_output">>))
    @@ ("sbs::compositing::input_grayscale"
                                    :> Ports(<< >>, <<"unique_filter_output">>))
    @@ ("sbs::compositing::gradient" :> Ports(<<"input1", "gradient">>,
                                              <<"unique_filter_output">>))
    @@ ("sbs::compositing::pixelprocessor"
                                    :> Ports(<<"input1">>, <<"unique_filter_output">>))
    @@ ("sbs::compositing::fxmaps"  :> Ports(<<"input1">>, <<"unique_filter_output">>))

Range(seq) == { seq[i] : i \in 1..Len(seq) }

\* the definition id _get_node_def_id reads from a library instance node
LibKind == "pkg://lib/found"

\* kinds of the nodes a graph holds
OpsKinds ==
    { "sbs::compositing::uniform", "sbs::compositing::blend", OutputKind, LibKind }

\* the host: node.getProperties(SDPropertyCategory.Output), in order
LiveOutputSeq(kind) ==
    IF kind \in DOMAIN ATOMIC_PORTS THEN ATOMIC_PORTS[kind].outputs
    ELSE <<"output">>

LiveOutputs(kind) == Range(LiveOutputSeq(kind))

\* the host: the parameters of a node and the id of each one's SDType;
\* they are Input properties, next to the connectable inputs
ParamTypes(kind) ==
    CASE kind = "sbs::compositing::uniform" ->
           ("outputcolor" :> "ColorRGBA") @@ ("colorswitch" :> "bool")
      [] kind = "sbs::compositing::blend" ->
           ("opacitymult" :> "float") @@ ("blendingmode" :> "int")
      [] kind = LibKind -> ("scale" :> "int")
      [] OTHER -> << >>

\* the host: the Annotation properties of a node
AnnotTypes(kind) ==
    IF kind = OutputKind THEN ("label" :> "string") ELSE << >>

\* the host: node.getProperties(SDPropertyCategory.Input) without the
\* system parameters, in order
LiveInputSeq(kind) ==
    IF kind \in DOMAIN ATOMIC_PORTS
    THEN ATOMIC_PORTS[kind].inputs
         \o (CASE kind = "sbs::compositing::uniform" -> <<"outputcolor", "colorswitch">>
               [] kind = "sbs::compositing::blend" -> <<"opacitymult", "blendingmode">>
               [] OTHER -> << >>)
    ELSE <<"input", "scale">>

\* the host: every Input property of a node, system parameters included
LiveInputs(kind) == Range(LiveInputSeq(kind)) \cup SYSTEM_PARAMS

NodeLists == UNION { [1..n -> OpsKinds] : n \in 0..MaxGraphNodes }

\* sdGraph.reads: whether node.getProperties returns or raises;
\* host.mode: the same for graph.getNodeDefinitions
InitOps ==
    /\ TransportInit
    /\ host \in { [defs |-> OpsKinds \ {LibKind}, mode |-> m] : m \in {"ok", "raises"} }
    /\ newNodeCalls = {}
    /\ lastResult = NoResult
    /\ sdGraph \in {NoGraph}
                   \cup { [exists |-> TRUE, nodes |-> ns, ver |-> 0, reads |-> r] :
                            ns \in NodeLists, r \in {"ok", "raises"} }
    /\ lastCall = NoCall
    /\ opResult = NoOp
    /\ BatchIdle
    /\ AuxIdle

\* graph_identifier of a request: none, or the name of no graph
GraphRefs == { "", "missing_graph" }

\* _resolve_graph: the named graph, else the current or the first graph
ResolveGraph(graph_identifier) ==
    IF graph_identifier # "" THEN "not_found"
    ELSE IF sdGraph.exists THEN "ok"
    ELSE "not_found"

\* node ids of a request: the nodes of the graph, and 0, the id of none
NodeRefs == 0..Len(sdGraph.nodes)

\* _find_node
FindNode(node_id) == node_id \in 1..Len(sdGraph.nodes)

\* a mutating host call: the kind of the node it is made on, the property
\* it names, the target of a connection, the class a value is boxed as
Call(api, node, port, to_node, to_port) ==
    [api |-> api, node |-> node, port |-> port, to_node |-> to_node,
     to_port |-> to_port, boxed |-> ""]

\* how a handler ends: the error it raises ("" when it returns), the
\* graph it leaves and the last host call it made
OpOk(g, c)           == [error |-> "", available |-> {}, graph |-> g, call |-> c]
OpFail(e, av)        == [error |-> e, available |-> av, graph |-> sdGraph,
                         call |-> lastCall]
OpFailAfter(e, g, c) == [error |-> e, available |-> {}, graph |-> g, call |-> c]

\* a host call that changes the graph
Edit(g) == [g EXCEPT !.ver = @ + 1]

AddNode(g, kind) == [g EXCEPT !.nodes = Append(@, kind), !.ver = @ + 1]

RemoveNode(g, n) ==
    [g EXCEPT !.nodes = SubSeq(@, 1, n - 1) \o SubSeq(@, n + 1, Len(@)),
              !.ver = @ + 1]

\* the end of a handler: _execute_safe makes the response
Finish(cmd, r) ==
    /\ sdGraph' = r.graph
    /\ lastCall' = r.call
    /\ opResult' = [cmd |-> cmd,
                    status |-> IF r.error = "" THEN "success"
                               ELSE IF r.error = "hung" THEN "hung"
                               ELSE "error",
                    error |-> r.error,
                    available |-> r.available]
    /\ UNCHANGED << transportVars, createVars, batchVars, auxVars >>

\* position of a request: none, two numbers, or two values float() rejects
Positions == { "none", "ok", "bad" }

\* if position and len(position) >= 2: node.setPosition(float2(...))
Positioned(g, c, kind, position) ==
    CASE position = "none" -> OpOk(g, c)
      [] position = "ok"   -> OpOk(Edit(g), Call("setPosition", kind, "", "", ""))
      [] OTHER             -> OpFailAfter("bad_position", g, c)

\* create_node(definition_id, graph_identifier, position)
create_node ==
    /\ opResult = NoOp
    /\ \E definition_id \in KindSamples, gid \in GraphRefs, position \in Positions :
         Finish("create_node",
            IF ResolveGraph(gid) # "ok" THEN OpFail("graph_not_found", {})
            ELSE IF CreateNodeCheck(definition_id) = "reject"
                 THEN OpFail("definition_not_found", {})
            ELSE IF NewNode(definition_id) = "hang"
                 THEN OpFailAfter("hung", sdGraph,
                                  Call("newNode", definition_id, "", "", ""))
            ELSE Positioned(AddNode(sdGraph, definition_id),
                            Call("newNode", definition_id, "", "", ""),
                            definition_id, position))

\* create_instance_node(resource_url, graph_identifier, position)
create_instance_node ==
    /\ opResult = NoOp
    /\ \E resource_url \in {"pkg://lib/found", "pkg://lib/missing"},
          gid \in GraphRefs, position \in Positions :
         Finish("create_instance_node",
            IF ResolveGraph(gid) # "ok" THEN OpFail("graph_not_found", {})
            ELSE IF resource_url \notin FoundUrls
                 THEN OpFail("resource_not_found", {})
            ELSE Positioned(AddNode(sdGraph, LibKind),
                            Call("newInstanceNode", resource_url, "", "", ""),
                            LibKind, position))

\* create_output_node(usage, label, graph_identifier, position); a label
\* the host refuses is logged, not raised
create_output_node ==
    /\ opResult = NoOp
    /\ \E gid \in GraphRefs, position \in Positions :
         Finish("create_output_node",
            IF ResolveGraph(gid) # "ok" THEN OpFail("graph_not_found", {})
            ELSE LET r == Positioned(AddNode(sdGraph, OutputKind),
                                     Call("newNode", OutputKind, "", "", ""),
                                     OutputKind, position)
                 IN IF r.error # "" THEN r
                    ELSE OpOk(Edit(r.graph),
                              [Call("setAnnotationPropertyValueFromId", OutputKind,
                                    "label", "", "") EXCEPT !.boxed = "string"]))

\* delete_node(node_id, graph_identifier)
delete_node ==
    /\ opResult = NoOp
    /\ \E gid \in GraphRefs, node_id \in NodeRefs :
         Finish("delete_node",
            IF ResolveGraph(gid) # "ok" THEN OpFail("graph_not_found", {})
            ELSE IF ~FindNode(node_id) THEN OpFail("node_not_found", {})
            ELSE OpOk(RemoveNode(sdGraph, node_id),
                      Call("deleteNode", sdGraph.nodes[node_id], "", "", "")))

\* move_node(node_id, position, graph_identifier)
move_node ==
    /\ opResult = NoOp
    /\ \E gid \in GraphRefs, node_id \in NodeRefs, position \in {"ok", "bad"} :
         Finish("move_node",
            IF ResolveGraph(gid) # "ok" THEN OpFail("graph_not_found", {})
            ELSE IF ~FindNode(node_id) THEN OpFail("node_not_found", {})
            ELSE IF position = "bad" THEN OpFail("bad_position", {})
            ELSE OpOk(Edit(sdGraph),
                      Call("setPosition", sdGraph.nodes[node_id], "", "", "")))

\* _is_instance_node
IsInstanceNode(kind) == kind = "unknown" \/ kind = LibKind

\* duplicate_node(node_id, offset, graph_identifier)
duplicate_node ==
    /\ opResult = NoOp
    /\ \E gid \in GraphRefs, node_id \in NodeRefs :
         Finish("duplicate_node",
            IF ResolveGraph(gid) # "ok" THEN OpFail("graph_not_found", {})
            ELSE IF ~FindNode(node_id) THEN OpFail("node_not_found", {})
            ELSE LET defn_id == sdGraph.nodes[node_id] IN
                 IF IsInstanceNode(defn_id) THEN OpFail("library_node", {})
                 ELSE OpOk(Edit(AddNode(sdGraph, defn_id)),
                           Call("setPosition", defn_id, "", "", "")))

\* disconnect_nodes(node_id, input_id, graph_identifier)
disconnect_nodes ==
    /\ opResult = NoOp
    /\ \E gid \in GraphRefs, node_id \in NodeRefs,
          input_id \in {"input1", "inputNodeOutput", "source", "bogus_port"} :
         Finish("disconnect_nodes",
            IF ResolveGraph(gid) # "ok" THEN OpFail("graph_not_found", {})
            ELSE IF ~FindNode(node_id) THEN OpFail("node_not_found", {})
            ELSE IF input_id \notin LiveInputs(sdGraph.nodes[node_id])
                 THEN OpFail("property_not_found", {})
            ELSE OpOk(Edit(sdGraph),
                      Call("deletePropertyConnections", sdGraph.nodes[node_id],
                           input_id, "", "")))

\* the host: from_node.newPropertyConnectionFromId(from_out, to_node, to_in)
\* makes the connection between two properties that exist, and returns
\* None otherwise
HostConnects(from_kind, from_out, to_kind, to_in) ==
    from_out \in LiveOutputs(from_kind) /\ to_in \in LiveInputs(to_kind)

\* the two sets _safe_connect collects; a read that raises leaves its set empty
OutIds(from_kind) ==
    IF sdGraph.reads = "raises" THEN {} ELSE LiveOutputs(from_kind)

InIds(to_kind) ==
    IF sdGraph.reads = "raises" THEN {} ELSE LiveInputs(to_kind) \ SYSTEM_PARAMS

\* a connection made first and validated afterwards
SafeConnectAfter(from_kind, from_out, to_kind, to_in) ==
    LET c == Call("newPropertyConnectionFromId", from_kind, from_out, to_kind, to_in)
        g == IF HostConnects(from_kind, from_out, to_kind, to_in)
             THEN Edit(sdGraph) ELSE sdGraph
    IN
    IF OutIds(from_kind) # {} /\ from_out \notin OutIds(from_kind)
       THEN [error |-> "port_not_found", available |-> OutIds(from_kind),
             graph |-> g, call |-> c]
    ELSE IF InIds(to_kind) # {} /\ to_in \notin InIds(to_kind)
       THEN [error |-> "port_not_found", available |-> InIds(to_kind),
             graph |-> g, call |-> c]
    ELSE IF HostConnects(from_kind, from_out, to_kind, to_in) THEN OpOk(g, c)
    ELSE OpFailAfter("connection_failed", g, c)

\* _safe_connect(graph, from_node, from_out, to_node, to_in)
SafeConnect(from_kind, from_out, to_kind, to_in) ==
    IF OutIds(from_kind) # {} /\ from_out \notin OutIds(from_kind)
       THEN OpFail("port_not_found", OutIds(from_kind))
    ELSE IF InIds(to_kind) # {} /\ to_in \notin InIds(to_kind)
       THEN OpFail("port_not_found", InIds(to_kind))
    ELSE LET c == Call("newPropertyConnectionFromId", from_kind, from_out,
                       to_kind, to_in)
         IN IF HostConnects(from_kind, from_out, to_kind, to_in)
            THEN OpOk(Edit(sdGraph), c)
            ELSE OpFailAfter("connection_failed", sdGraph, c)

\* port names of a request; "" is a port the request leaves out
OutPortSamples == { "", "unique_filter_output", "output", "bogus_port" }
InPortSamples  == { "", "inputNodeOutput", "source", "outputcolor",
                    "$outputsize", "bogus_port" }

\* connect_nodes(from_node_id, to_node_id, from_output, to_input,
\* graph_identifier)
connect_nodes ==
    /\ opResult = NoOp
    /\ \E gid \in GraphRefs, from_node_id \in NodeRefs, to_node_id \in NodeRefs,
          fo \in OutPortSamples, ti \in InPortSamples :
         LET from_output == IF fo = "" THEN "unique_filter_output" ELSE fo
             to_input    == IF ti = "" THEN "input1" ELSE ti
         IN
         Finish("connect_nodes",
            IF ResolveGraph(gid) # "ok" THEN OpFail("graph_not_found", {})
            ELSE IF ~FindNode(from_node_id) \/ ~FindNode(to_node_id)
                 THEN OpFail("node_not_found", {})
            ELSE SafeConnect(sdGraph.nodes[from_node_id], from_output,
                             sdGraph.nodes[to_node_id], to_input))

\* smart_connect: the output port used when the request names none
SmartFromOutput(from_defn) ==
    IF from_defn \in DOMAIN ATOMIC_PORTS
    THEN IF ATOMIC_PORTS[from_defn].outputs # << >>
         THEN ATOMIC_PORTS[from_defn].outputs[1] ELSE "unique_filter_output"
    ELSE IF sdGraph.reads = "raises" \/ LiveOutputSeq(from_defn) = << >>
         THEN "unique_filter_output"
    ELSE LiveOutputSeq(from_defn)[1]

\* smart_connect: the input port used when the request names none
SmartToInput(to_defn) ==
    IF to_defn \in DOMAIN ATOMIC_PORTS
    THEN IF ATOMIC_PORTS[to_defn].inputs # << >>
         THEN ATOMIC_PORTS[to_defn].inputs[1] ELSE "input1"
    ELSE IF sdGraph.reads = "raises" \/ LiveInputSeq(to_defn) = << >>
         THEN "input1"
    ELSE LiveInputSeq(to_defn)[1]

\* smart_connect(from_node_id, to_node_id, from_output, to_input,
\* graph_identifier)
smart_connect ==
    /\ opResult = NoOp
    /\ \E gid \in GraphRefs, from_node_id \in NodeRefs, to_node_id \in NodeRefs,
          fo \in OutPortSamples, ti \in InPortSamples :
         Finish("smart_connect",
            IF ResolveGraph(gid) # "ok" THEN OpFail("graph_not_found", {})
            ELSE IF ~FindNode(from_node_id) \/ ~FindNode(to_node_id)
                 THEN OpFail("node_not_found", {})
            ELSE LET from_defn == sdGraph.nodes[from_node_id]
                     to_defn   == sdGraph.nodes[to_node_id]
                 IN SafeConnect(from_defn,
                                IF fo = "" THEN SmartFromOutput(from_defn) ELSE fo,
                                to_defn,
                                IF ti = "" THEN SmartToInput(to_defn) ELSE ti))

\* value_type.lower() / sd_type_id.lower(), for the ids in use
Lower(t) ==
    CASE t = "ColorRGBA" -> "colorrgba"
      [] t = "ColorRGB"  -> "colorrgb"
      [] t = "Int"       -> "int"
      [] t = "Noise"     -> "noise"
      [] t = "Perlin_Noise" -> "perlin_noise"
      [] OTHER -> t

\* caller-supplied values, by their Python shape
ValueShapes == { "number", "list2" }

\* values a caller gives a parameter, by their Python type: the shapes
\* above, a bool, an int, a str that is no number, lists of 1, 3 and 4
\* numbers, and a dict
ParamValues ==
    ValueShapes \cup { "bool", "integer", "string", "list1", "list3", "list4",
                       "object" }

\* isinstance(value, (list, tuple)) and len(value)
ListLen(value) ==
    CASE value = "list1" -> 1
      [] value = "list2" -> 2
      [] value = "list3" -> 3
      [] value = "list4" -> 4
      [] OTHER -> 0

\* float(value) and int(value) return for a float, an int and a bool
Numeric(value) == value \in { "number", "integer", "bool" }

\* v = value if isinstance(value, (list, tuple)) else [value] * n, then
\* float(v[0]) .. float(v[n-1]): whether all of it returns
Components(value, n) ==
    IF ListLen(value) > 0 THEN ListLen(value) >= n ELSE Numeric(value)

\* _make_sd_value(value_type, value): the SDValue class the value is boxed
\* as; "bad_value" when float(), int() or v[i] raises,
\* "unknown_value_type" for the ValueError at the end
MakeSdValue(value_type, value) ==
    LET t == Lower(value_type) IN
    CASE t \in {"float", "int"} ->
           IF Numeric(value) THEN t ELSE "bad_value"
      [] t \in {"bool", "string"} -> t
      [] t \in {"float2", "int2"} ->
           IF Components(value, 2) THEN t ELSE "bad_value"
      [] t \in {"float3", "int3"} ->
           IF Components(value, 3) THEN t ELSE "bad_value"
      [] t \in {"float4", "int4"} ->
           IF Components(value, 4) THEN t ELSE "bad_value"
      [] t \in {"color", "colorrgba"} ->
           IF Components(value, 3) THEN "color" ELSE "bad_value"
      [] OTHER -> "unknown_value_type"

\* _coerce_type, the exact primitive types: the value_type a property of
\* this SDType takes, "" when the type is none of them
PrimitiveBox(sd_type_id) ==
    LET tid == Lower(sd_type_id) IN
    CASE tid \in {"int", "float", "bool", "string", "float2", "float3",
                  "float4", "int2", "int3", "int4"} -> tid
      [] tid = "colorrgba" -> "color"
      [] tid = "colorrgb"  -> "float3"
      [] OTHER -> ""

SetCall(api, kind, parameter_id, boxed) ==
    [Call(api, kind, parameter_id, "", "") EXCEPT !.boxed = boxed]

\* the host: a setter given a property the node has and a value boxed as
\* the property's type sets it; given a property the node lacks it raises;
\* given a value boxed as another type it raises or takes the host down
HostSets(types, parameter_id, boxed, mismatch) ==
    IF parameter_id \notin DOMAIN types THEN "raises"
    ELSE IF boxed = PrimitiveBox(types[parameter_id]) THEN "ok"
    ELSE mismatch

\* set_parameter(node_id, parameter_id, value, value_type, graph_identifier)
set_parameter ==
    /\ opResult = NoOp
    /\ \E gid \in GraphRefs, node_id \in NodeRefs,
          parameter_id \in {"opacitymult", "blendingmode", "label", "bogus_param"},
          value \in ValueShapes,
          value_type \in {"float", "int", "float2", "bogus"},
          mismatch \in {"raises", "crashes"} :
         Finish("set_parameter",
            IF ResolveGraph(gid) # "ok" THEN OpFail("graph_not_found", {})
            ELSE IF ~FindNode(node_id) THEN OpFail("node_not_found", {})
            ELSE
            LET kind      == sdGraph.nodes[node_id]
                boxed     == MakeSdValue(value_type, value)
                input_ids == IF sdGraph.reads = "raises" THEN {} ELSE LiveInputs(kind)
                annot_ids == IF sdGraph.reads = "raises" THEN {}
                             ELSE DOMAIN AnnotTypes(kind)
                inputSet  == HostSets(ParamTypes(kind), parameter_id, boxed, mismatch)
                annotSet  == HostSets(AnnotTypes(kind), parameter_id, boxed, mismatch)
                inCall    == SetCall("setInputPropertyValueFromId", kind,
                                     parameter_id, boxed)
                anCall    == SetCall("setAnnotationPropertyValueFromId", kind,
                                     parameter_id, boxed)
            IN
            IF boxed \in {"bad_value", "unknown_value_type"} THEN OpFail(boxed, {})
            ELSE IF (input_ids \cup annot_ids) # {}
                    /\ parameter_id \notin (input_ids \cup annot_ids)
                 THEN OpFail("property_not_found", input_ids \cup annot_ids)
            ELSE IF inputSet = "ok" THEN OpOk(Edit(sdGraph), inCall)
            ELSE IF inputSet = "crashes" THEN OpFailAfter("hung", sdGraph, inCall)
            ELSE IF annotSet = "ok" THEN OpOk(Edit(sdGraph), anCall)
            ELSE IF annotSet = "crashes" THEN OpFailAfter("hung", sdGraph, anCall)
            ELSE OpFailAfter("set_failed", sdGraph, anCall))

NextOps ==
    \/ create_node
    \/ create_instance_node
    \/ create_output_node
    \/ connect_nodes
    \/ smart_connect
    \/ disconnect_nodes
    \/ set_parameter
    \/ delete_node
    \/ move_node
    \/ duplicate_node

SpecOps == InitOps /\ [][NextOps]_vars

\* ------------------------------------------------------------------------
\* SpecBatch: create_batch_graph and apply_recipe with aliases and wiring;
\* a behaviour is one batch command (the package and the graph are found)
\* ------------------------------------------------------------------------
\* node specs and connection specs in one batch request or recipe
MaxNodeSpecs == 3
MaxConnSpecs == 2

\* defn_id.split("::")[-1], for the kinds in use
KindTail(defn_id) ==
    CASE defn_id = "sbs::compositing::uniform" -> "uniform"
      [] defn_id = "sbs::compositing::blend"   -> "blend"
      [] defn_id = "sbs::compositing::output"  -> "output"
      [] defn_id = "sbs::compositing::bogus"   -> "bogus"
      [] OTHER -> defn_id

\* one element of "nodes": a JSON object with these keys ("" for a key
\* that is absent), or a JSON value that is not an object; "parameters"
\* is absent or the dict written in BadParams
BatchNodeSpec(shape, alias, d, pos) ==
    [shape |-> shape, id_alias |-> alias, definition_id |-> d,
     res_url |-> "", lib_kw |-> "", position |-> pos, parameters |-> ""]

\* {"p": 1.0, "q": "abc"} for a node that has no property p and has a
\* float input property q
BadParams == "p_unlisted_q_unboxable"

BatchNodeSamples ==
    { BatchNodeSpec("object", "a", "sbs::compositing::uniform", "ok"),
      BatchNodeSpec("object", "a_1", "sbs::compositing::blend", "ok"),
      BatchNodeSpec("object", "", "sbs::compositing::bogus", "ok"),
      BatchNodeSpec("object", "a", "sbs::compositing::uniform", "bad"),
      [BatchNodeSpec("object", "b", "sbs::compositing::uniform", "ok")
          EXCEPT !.parameters = BadParams],
      BatchNodeSpec("not_object", "", "", "ok") }

\* one element of "connections": an object, an object whose "from" is a
\* JSON list, or a JSON value that is not an object
BatchConnSpec(shape, fa, ta, fo, ti) ==
    [shape |-> shape, from |-> fa, to |-> ta, from_output |-> fo, to_input |-> ti]

BatchConnSamples ==
    { BatchConnSpec("object", "a", "a_1", "unique_filter_output", "source"),
      BatchConnSpec("object", "a", "a_1", "bogus_port", "source"),
      BatchConnSpec("object", "zz", "a", "unique_filter_output", "source"),
      BatchConnSpec("object", "a", "zz", "unique_filter_output", "source"),
      BatchConnSpec("list_alias", "", "a", "unique_filter_output", "source"),
      BatchConnSpec("not_object", "", "", "", "") }

NodeSpecLists == UNION { [1..n -> BatchNodeSamples] : n \in 0..MaxNodeSpecs }
ConnSpecLists == UNION { [1..n -> BatchConnSamples] : n \in 0..MaxConnSpecs }

\* RECIPE_REGISTRY holds objects with numeric positions and string aliases
RecipeNodeLists ==
    { l \in NodeSpecLists :
        \A i \in 1..Len(l) : l[i].shape = "object" /\ l[i].position = "ok" }
RecipeConnLists ==
    { l \in ConnSpecLists : \A i \in 1..Len(l) : l[i].shape = "object" }

NoReport ==
    [present |-> FALSE, nodes_created |-> 0, nodes_failed |-> 0,
     connections_ok |-> 0, connections_failed |-> 0, node_map |-> {},
     keys |-> {}, nodes |-> << >>, failed_nodes |-> << >>,
     connections |-> << >>]

InitBatch ==
    /\ TransportInit
    /\ host = [defs |-> OpsKinds \ {LibKind}, mode |-> "ok"]
    /\ newNodeCalls = {}
    /\ lastResult = NoResult
    /\ OpsIdle
    /\ batchRun = NoBatch
    /\ AuxIdle

\* the keys of alias_map
Aliases(alias_map) == { e.alias : e \in alias_map }

\* alias_map[alias] = (node, node_id)
Put(alias_map, alias, node) ==
    { e \in alias_map : e.alias # alias } \cup { [alias |-> alias, node |-> node] }

\* an alias registered as it is given, whatever alias_map holds
DedupNever(orig_alias, counter, taken) == orig_alias

\* counter = 0; while alias in alias_map: counter += 1;
\* alias = "{}_{}".format(orig_alias, counter)
RECURSIVE Dedup(_, _, _)
Dedup(orig_alias, counter, taken) ==
    LET alias == IF counter = 0 THEN orig_alias
                 ELSE orig_alias \o "_" \o ToString(counter)
    IN IF alias \in taken THEN Dedup(orig_alias, counter + 1, taken) ELSE alias

\* the dict _set_node_params(node, params) returns: {} for no params,
\* "skipped" for a param_id in neither type map, "error: ..." for a value
\* _make_sd_value cannot box (float("abc") raises)
SetNodeParams(params) ==
    IF params = "" THEN {}
    ELSE { [param_id |-> "p", result |-> "skipped"],
           [param_id |-> "q", result |-> "error"] }

\* one pass of the for loop over node specs, aliases included: what is
\* appended to created or failed, whether the host graph got a node, and
\* what the call of _set_node_params returned (the handler drops it)
NodeEntry(spec, alias_map, node) ==
    LET orig_alias == IF spec.id_alias # "" THEN spec.id_alias
                      ELSE KindTail(spec.definition_id)
        r    == BatchSpec(spec)
        kind == IF CreationMethod(spec) \in {"resource", "library"}
                THEN LibKind ELSE spec.definition_id
    IN
    IF r.ends # "created"
       THEN [ends |-> "failed", alias |-> orig_alias, orig |-> orig_alias,
             kind |-> kind, host |-> FALSE, node |-> 0, params |-> {}]
    ELSE IF spec.position = "bad"
       THEN [ends |-> "failed", alias |-> orig_alias, orig |-> orig_alias,
             kind |-> kind, host |-> TRUE, node |-> node, params |-> {}]
    ELSE [ends |-> "created",
          alias |-> Dedup(orig_alias, 0, Aliases(alias_map)),
          orig |-> orig_alias, kind |-> kind, host |-> TRUE, node |-> node,
          params |-> SetNodeParams(spec.parameters)]

\* the for loop over node specs, from spec i on; spec.get outside the try
\* raises for a spec that is not an object and ends the handler
RECURSIVE BuildNodes(_, _, _)
BuildNodes(specs, i, acc) ==
    IF i > Len(specs) \/ acc.raised # "" THEN acc
    ELSE IF specs[i].shape # "object"
         THEN [acc EXCEPT !.raised = "spec_not_object"]
    ELSE LET e == NodeEntry(specs[i], acc.alias_map, i) IN
         BuildNodes(specs, i + 1,
            [nodes     |-> Append(acc.nodes, e),
             alias_map |-> IF e.ends = "created"
                           THEN Put(acc.alias_map, e.alias, e.node)
                           ELSE acc.alias_map,
             raised    |-> ""])

\* the entry of conn_results for an alias that is not registered, with
\* no alias named in it
UnresolvedUnnamed(cmd, fa, ta, aliases) ==
    [success |-> FALSE, error |-> "alias_not_found", names |-> "", called |-> FALSE]

\* the entry of conn_results for an alias that is not registered:
\* "from '<fa>' not found" or "to '<ta>' not found" in create_batch_graph,
\* "alias not found" in apply_recipe
Unresolved(cmd, fa, ta, aliases) ==
    IF cmd = "apply_recipe"
       THEN [success |-> FALSE, error |-> "alias_not_found", names |-> "",
             called |-> FALSE]
    ELSE IF fa \notin aliases
       THEN [success |-> FALSE, error |-> "from_not_found", names |-> fa,
             called |-> FALSE]
    ELSE [success |-> FALSE, error |-> "to_not_found", names |-> ta,
          called |-> FALSE]

\* the node registered under an alias
NodeOf(alias_map, alias) == (CHOOSE e \in alias_map : e.alias = alias).node

\* one pass of the for loop over connection specs
WireOne(cmd, cspec, nodes, alias_map) ==
    IF cspec.from \notin Aliases(alias_map) \/ cspec.to \notin Aliases(alias_map)
    THEN Unresolved(cmd, cspec.from, cspec.to, Aliases(alias_map))
    ELSE LET r == SafeConnect(nodes[NodeOf(alias_map, cspec.from)].kind,
                              cspec.from_output,
                              nodes[NodeOf(alias_map, cspec.to)].kind,
                              cspec.to_input)
         IN [success |-> r.error = "", error |-> r.error, names |-> "",
             called |-> r.call # lastCall]

\* the for loop over connection specs, from spec j on; conn.get raises for
\* a spec that is not an object, `fa not in alias_map` for an alias that is
\* a list, both outside the try
RECURSIVE WireAll(_, _, _, _, _)
WireAll(cmd, conns, j, built, acc) ==
    IF j > Len(conns) \/ acc.raised # "" THEN acc
    ELSE IF conns[j].shape = "not_object"
         THEN [acc EXCEPT !.raised = "conn_not_object"]
    ELSE IF conns[j].shape = "list_alias"
         THEN [acc EXCEPT !.raised = "alias_unhashable"]
    ELSE WireAll(cmd, conns, j + 1, built,
            [results |-> Append(acc.results,
                                WireOne(cmd, conns[j], built.nodes, built.alias_map)),
             raised  |-> ""])

\* len(created), len(failed)
CountEnds(nodes, ends) == Cardinality({ i \in 1..Len(nodes) : nodes[i].ends = ends })

\* sum(1 for c in conn_results if c.get("success")), and if not
CountSuccess(results, b) ==
    Cardinality({ j \in 1..Len(results) : results[j].success = b })

\* the keys of the dict the handler returns
ReportKeys(cmd) ==
    IF cmd = "apply_recipe"
    THEN { "graph_identifier", "recipe", "nodes_added", "nodes_failed",
           "connections_ok", "connections_failed", "node_map" }
    ELSE { "graph_identifier", "requested_name", "nodes_created", "nodes_failed",
           "connections_ok", "connections_failed", "node_map", "nodes",
           "failed_nodes", "connections" }

\* created: {"alias": alias, "node_id": node_id, "definition": actual_def}
\* for each spec that reached the end of the try block
RECURSIVE CreatedNodes(_, _)
CreatedNodes(nodes, i) ==
    IF i > Len(nodes) THEN << >>
    ELSE IF nodes[i].ends = "created"
         THEN << [alias |-> nodes[i].alias, node_id |-> nodes[i].node,
                  definition |-> nodes[i].kind] >> \o CreatedNodes(nodes, i + 1)
    ELSE CreatedNodes(nodes, i + 1)

\* failed: {"alias": alias, "error": str(e)} for each spec that raised
RECURSIVE FailedNodes(_, _)
FailedNodes(nodes, i) ==
    IF i > Len(nodes) THEN << >>
    ELSE IF nodes[i].ends = "failed"
         THEN << [alias |-> nodes[i].alias,
                  error |-> IF nodes[i].host THEN "position_rejected"
                            ELSE "not_created"] >> \o FailedNodes(nodes, i + 1)
    ELSE FailedNodes(nodes, i + 1)

\* a host graph that loses what a batch made as soon as one item fails
HostGraphRolledBack(nodes, results) ==
    IF (\E i \in 1..Len(nodes) : nodes[i].ends = "failed")
       \/ (\E j \in 1..Len(results) : ~results[j].success)
    THEN [kept |-> FALSE, nodes |-> {}, conns |-> {}]
    ELSE [kept |-> TRUE, nodes |-> { i \in 1..Len(nodes) : nodes[i].host },
          conns |-> { j \in 1..Len(results) : results[j].success }]

\* the host graph after the loops: the graph (created by SDSBSCompGraph.sNew
\* or resolved), a node for each newNode or newInstanceNode that returned
\* one, a connection for each newPropertyConnectionFromId that returned;
\* the handlers call nothing that removes any of them
HostGraph(nodes, results) ==
    [kept |-> TRUE, nodes |-> { i \in 1..Len(nodes) : nodes[i].host },
     conns |-> { j \in 1..Len(results) : results[j].success }]

\* the handler from the node loop to its return statement
RunBatch(cmd, nodes, connections) ==
    LET built == BuildNodes(nodes, 1, [nodes |-> << >>, alias_map |-> {}, raised |-> ""])
        wired == IF built.raised # "" THEN [results |-> << >>, raised |-> built.raised]
                 ELSE WireAll(cmd, connections, 1, built,
                              [results |-> << >>, raised |-> ""])
        detail == "failed_nodes" \in ReportKeys(cmd)
    IN
    [cmd |-> cmd, specs |-> nodes, conns |-> connections,
     outcome |-> IF wired.raised = "" THEN "returned" ELSE "raised",
     cause |-> wired.raised,
     nodes |-> built.nodes,
     alias_map |-> built.alias_map,
     conn_results |-> wired.results,
     graph |-> HostGraph(built.nodes, wired.results),
     report |-> IF wired.raised # "" THEN NoReport
                ELSE [present |-> TRUE,
                      nodes_created |-> CountEnds(built.nodes, "created"),
                      nodes_failed  |-> CountEnds(built.nodes, "failed"),
                      connections_ok |-> CountSuccess(wired.results, TRUE),
                      connections_failed |-> CountSuccess(wired.results, FALSE),
                      node_map |-> built.alias_map,
                      keys |-> ReportKeys(cmd),
                      nodes |-> IF detail THEN CreatedNodes(built.nodes, 1)
                                ELSE << >>,
                      failed_nodes |-> IF detail THEN FailedNodes(built.nodes, 1)
                                       ELSE << >>,
                      connections |-> IF detail THEN wired.results ELSE << >>]]

\* create_batch_graph(graph_name, nodes, connections)
create_batch_graph ==
    /\ batchRun = NoBatch
    /\ \E nodes \in NodeSpecLists, connections \in ConnSpecLists :
         batchRun' = RunBatch("create_batch_graph", nodes, connections)
    /\ UNCHANGED << transportVars, createVars, opsVars, auxVars >>

\* a recipe name or style the registry lacks raises ValueError
RecipeNotFound(cmd) ==
    [NoBatch EXCEPT !.cmd = cmd, !.outcome = "raised", !.cause = "recipe_not_found"]

\* build_material_graph(graph_name, recipe_name): create_batch_graph on
\* the nodes and connections of the recipe
build_material_graph ==
    /\ batchRun = NoBatch
    /\ \/ batchRun' = RecipeNotFound("build_material_graph")
       \/ \E nodes \in RecipeNodeLists, connections \in RecipeConnLists :
            batchRun' = RunBatch("build_material_graph", nodes, connections)
    /\ UNCHANGED << transportVars, createVars, opsVars, auxVars >>

\* build_heightmap_graph(graph_name, style): create_batch_graph on the
\* nodes and connections the style's builder returns
build_heightmap_graph ==
    /\ batchRun = NoBatch
    /\ \/ batchRun' = RecipeNotFound("build_heightmap_graph")
       \/ \E nodes \in RecipeNodeLists, connections \in RecipeConnLists :
            batchRun' = RunBatch("build_heightmap_graph", nodes, connections)
    /\ UNCHANGED << transportVars, createVars, opsVars, auxVars >>

\* apply_recipe(recipe_name): a name RECIPE_REGISTRY lacks raises
\* ValueError, else the recipe's nodes and connections are added
apply_recipe ==
    /\ batchRun = NoBatch
    /\ \/ batchRun' = RecipeNotFound("apply_recipe")
       \/ \E nodes \in RecipeNodeLists, connections \in RecipeConnLists :
            batchRun' = RunBatch("apply_recipe", nodes, connections)
    /\ UNCHANGED << transportVars, createVars, opsVars, auxVars >>

NextBatch ==
    \/ create_batch_graph
    \/ build_material_graph
    \/ build_heightmap_graph
    \/ apply_recipe

SpecBatch == InitBatch /\ [][NextBatch]_vars

\* ------------------------------------------------------------------------
\* SpecCoerce: _set_node_params on one parameter of one node; a behaviour
\* is one (param_id, param_spec) pair and the property it names
\* ------------------------------------------------------------------------
\* an inference that gives a bare int the type "int"
InferTypeInt(value) ==
    CASE value = "bool"    -> "bool"
      [] value = "integer" -> "int"
      [] value = "number"  -> "float"
      [] value = "string"  -> "string"
      [] value = "list2"   -> "float2"
      [] value = "list3"   -> "float3"
      [] value = "list4"   -> "float4"
      [] OTHER -> "float"

\* _infer_type(value)
InferType(value) ==
    CASE value = "bool"    -> "bool"
      [] value = "integer" -> "float"
      [] value = "number"  -> "float"
      [] value = "string"  -> "string"
      [] value = "list2"   -> "float2"
      [] value = "list3"   -> "float3"
      [] value = "list4"   -> "float4"
      [] OTHER -> "float"

\* SDType ids a property reports: the primitives, two colours, an enum,
\* and three ids that are none of these: one whose name has "int" in it,
\* one with "int" and "float", one with neither; "" when getType fails
TypeIds ==
    { "", "int", "float", "bool", "string", "float2", "float3", "float4",
      "int2", "int3", "int4", "ColorRGBA", "ColorRGB",
      "sbs::compositing::blendingmode", "long_int", "float_or_int", "texture" }

\* tid.startswith("sbs::") or "::" in tid, for the ids in use
Namespaced(tid) == tid = "sbs::compositing::blendingmode"

\* "int" in tid, for the ids in use
HasInt(tid) == tid \in { "int", "int2", "int3", "int4", "long_int", "float_or_int" }

\* "float" in tid, for the ids in use
HasFloat(tid) == tid \in { "float", "float2", "float3", "float4", "float_or_int" }

\* a coercion that keeps the inferred or tagged type
CoerceTypeInferred(inferred_type, value, sd_type_id) ==
    inferred_type

\* _coerce_type(inferred_type, value, sd_type_id)
CoerceType(inferred_type, value, sd_type_id) ==
    LET tid == Lower(sd_type_id) IN
    IF sd_type_id = "" THEN inferred_type
    ELSE IF PrimitiveBox(sd_type_id) # "" THEN PrimitiveBox(sd_type_id)
    ELSE IF Namespaced(tid) THEN
        IF inferred_type = "float" /\ value \in {"integer", "number"}
        THEN "int" ELSE inferred_type
    ELSE IF HasInt(tid) /\ ~HasFloat(tid) THEN
        IF inferred_type = "float" THEN "int"
        ELSE IF inferred_type = "float4" /\ ListLen(value) > 0 THEN "int4"
        ELSE IF inferred_type = "float2" /\ ListLen(value) > 0 THEN "int2"
        ELSE inferred_type
    ELSE inferred_type

\* the "type" of a {"value", "type"} envelope; "" when the key is absent
TypeTags == { "", "int", "Int", "float", "float2", "float3", "int3", "bogus" }

\* the host: the SDValue class a property of this SDType takes; an enum
\* takes an SDValueInt; "" for a type the model does not know the class of,
\* whose setter sets, raises or takes the host down
PropertyBox(sd_type_id) ==
    IF Namespaced(Lower(sd_type_id)) THEN "int" ELSE PrimitiveBox(sd_type_id)

InitCoerce ==
    /\ TransportInit
    /\ host = [defs |-> OpsKinds \ {LibKind}, mode |-> "ok"]
    /\ newNodeCalls = {}
    /\ lastResult = NoResult
    /\ OpsIdle
    /\ BatchIdle
    /\ SerialIdle
    /\ LibIdle
    /\ BridgeIdle
    /\ LateIdle
    /\ \E param_id \in {"p", "$outputsize"}, form \in {"bare", "envelope"},
          tag \in TypeTags, value \in ParamValues,
          category \in {"input", "annotation", "none"}, sd_type_id \in TypeIds :
         /\ form = "bare" => tag = ""
         /\ category = "none" => sd_type_id = ""
         /\ paramRun = [NoParam EXCEPT !.pc = "start", !.param_id = param_id,
                                       !.form = form, !.tag = tag, !.value = value,
                                       !.category = category,
                                       !.sd_type_id = sd_type_id]

\* the body of the loop over params.items(), once; a setter is called only
\* for a param_id that is a key of input_type_map or annot_type_map
set_node_param ==
    /\ paramRun.pc = "start"
    /\ \E reaction \in {"ok", "raises", "crashes"} :
         LET r        == paramRun
             inferred == IF r.tag # "" THEN r.tag ELSE InferType(r.value)
             ptype    == CoerceType(inferred, r.value, r.sd_type_id)
             boxed    == MakeSdValue(ptype, r.value)
             setter   == CASE r.category = "input" -> "setInputPropertyValueFromId"
                           [] r.category = "annotation" -> "setAnnotationPropertyValueFromId"
                           [] OTHER -> ""
             set      == IF setter = "" THEN "not_called"
                         ELSE IF PropertyBox(r.sd_type_id) = boxed THEN "ok"
                         ELSE IF PropertyBox(r.sd_type_id) = "" THEN reaction
                         ELSE IF reaction = "ok" THEN "raises"
                         ELSE reaction
         IN paramRun' =
              IF r.param_id = "$outputsize"
              THEN [r EXCEPT !.pc = "done", !.result = "skipped_system"]
              ELSE IF boxed \in {"bad_value", "unknown_value_type"}
              THEN [r EXCEPT !.pc = "done", !.ptype = ptype, !.result = "error"]
              ELSE [r EXCEPT !.pc = "done", !.ptype = ptype, !.boxed = boxed,
                             !.setter = setter,
                             !.result = CASE set = "ok" -> "ok"
                                          [] set = "crashes" -> "hung"
                                          [] OTHER -> "skipped"]
    /\ UNCHANGED << transportVars, createVars, opsVars, batchVars, serialVars, libVars,
                    bridgeVars, lateVars >>

NextCoerce == set_node_param

SpecCoerce == InitCoerce /\ [][NextCoerce]_vars

\* ------------------------------------------------------------------------
\* SpecSerial: _handle_client serializing the response of one command; a
\* behaviour is one response, its result a list of values
\* ------------------------------------------------------------------------
\* values in one result
MaxLeaves == 3

\* what a handler can put in a result: a finite float, the three floats
\* that are not finite, a str, and an object json does not know (an SDK
\* object, a set)
LeafKinds == { "finite", "nan", "inf", "neg_inf", "str", "sd_object" }

Results == UNION { [1..n -> LeafKinds] : n \in 0..MaxLeaves }

\* _json_safe(obj): the value it returns
JsonSafe(obj) ==
    CASE obj = "nan"     -> "None"
      [] obj = "inf"     -> "1e308"
      [] obj = "neg_inf" -> "-1e308"
      [] OTHER -> "str"

\* the JSON text json.dumps writes for a value of a type it knows (float,
\* str, None): floats by float.__repr__, with allow_nan at its default
Encode(obj) ==
    CASE obj = "nan"     -> "NaN"
      [] obj = "inf"     -> "Infinity"
      [] obj = "neg_inf" -> "-Infinity"
      [] obj = "None"    -> "null"
      [] obj = "str"     -> "string"
      [] OTHER -> obj

\* json.dumps(response, default=_json_safe), one value: default is called
\* only for a value of a type json.dumps does not know
JsonDumps(obj) ==
    IF obj = "sd_object" THEN Encode(JsonSafe(obj)) ELSE Encode(obj)

InitSerial ==
    /\ TransportInit
    /\ host = [defs |-> OpsKinds \ {LibKind}, mode |-> "ok"]
    /\ newNodeCalls = {}
    /\ lastResult = NoResult
    /\ OpsIdle
    /\ BatchIdle
    /\ CoerceIdle
    /\ LibIdle
    /\ BridgeIdle
    /\ LateIdle
    /\ \E result \in Results :
         wireRun = [NoWire EXCEPT !.pc = "executed", !.result = result]

\* _send_framed(client, json.dumps(response, default=_json_safe).encode())
send_response ==
    /\ wireRun.pc = "executed"
    /\ wireRun' = [wireRun EXCEPT
                     !.pc = "done",
                     !.outcome = "sent",
                     !.sent = [i \in DOMAIN wireRun.result |->
                                 JsonDumps(wireRun.result[i])]]
    /\ UNCHANGED << transportVars, createVars, opsVars, batchVars, coerceVars, libVars,
                    bridgeVars, lateVars >>

NextSerial == send_response

SpecSerial == InitSerial /\ [][NextSerial]_vars

\* ------------------------------------------------------------------------
\* SpecLib: the library resolver and its cache under a sequence of
\* commands: a node created by library keyword (a batch of one node spec),
\* get_library_nodes, and delete_graph on a graph of a saved user package
\* ------------------------------------------------------------------------
\* resolutions in one session
MaxResolves == 3

\* the SDSBSCompGraph resources of the packages with a file path, in the
\* order getPackages and getChildrenResources give them: a graph of the
\* shipped library, then a graph of a saved user package
LibResources ==
    << [id |-> "Perlin_Noise", url |-> "pkg://A/Perlin_Noise", user |-> FALSE],
       [id |-> "noise",        url |-> "pkg://B/noise",        user |-> TRUE] >>

\* a keyword of a request
Keywords == { "noise", "Noise", "perlin", "nothing" }

\* key in rid.lower(): the resources whose identifier has the key in it
Matching(key) ==
    CASE key = "noise"        -> {1, 2}
      [] key = "perlin"       -> {1}
      [] key = "perlin_noise" -> {1}
      [] OTHER -> {}

\* the first resource in order among these, 0 when there is none
First(found) ==
    IF found = {} THEN 0 ELSE CHOOSE i \in found : \A j \in found : i <= j

\* self._lib_url_cache[key] = url
CachePut(cache, key, url) == (key :> url) @@ cache

\* a resolver that takes the keyword as it is written
ResolveLibUrlCaseSensitive(cache, present, keyword) ==
    LET i == First(present \cap Matching(Lower(keyword))) IN
    IF keyword \in DOMAIN cache
    THEN [url |-> cache[keyword], searched |-> FALSE, cache |-> cache]
    ELSE IF i = 0 THEN [url |-> "", searched |-> TRUE, cache |-> cache]
    ELSE [url |-> LibResources[i].url, searched |-> TRUE,
          cache |-> CachePut(CachePut(cache, keyword, LibResources[i].url),
                             Lower(LibResources[i].id), LibResources[i].url)]

\* _resolve_lib_url(keyword): the url returned ("" for None), whether the
\* packages were searched, and the cache afterwards
ResolveLibUrl(cache, present, keyword) ==
    LET key == Lower(keyword)
        i   == First(present \cap Matching(key))
    IN
    IF key \in DOMAIN cache
    THEN [url |-> cache[key], searched |-> FALSE, cache |-> cache]
    ELSE IF i = 0 THEN [url |-> "", searched |-> TRUE, cache |-> cache]
    ELSE [url |-> LibResources[i].url, searched |-> TRUE,
          cache |-> CachePut(CachePut(cache, key, LibResources[i].url),
                             Lower(LibResources[i].id), LibResources[i].url)]

\* pkg.findResourceFromUrl(url) over the packages: the resource, 0 for none
FindResourceFromUrl(present, url) ==
    First({ i \in present : LibResources[i].url = url })

\* _create_library_node(graph, keyword): the resource instanced ("" for
\* none) and the error raised: the ValueError that names get_library_nodes,
\* the ValueError "Resource URL not found", or the RuntimeError when
\* newInstanceNode returns None
CreateLibraryNode(r, present, instanced) ==
    LET res == FindResourceFromUrl(present, r.url) IN
    IF r.url = "" THEN [created |-> "", error |-> "not_found_use_get_library_nodes"]
    ELSE IF res = 0 THEN [created |-> "", error |-> "resource_url_not_found"]
    ELSE IF ~instanced THEN [created |-> "", error |-> "new_instance_failed"]
    ELSE [created |-> LibResources[res].url, error |-> ""]

InitLib ==
    /\ TransportInit
    /\ host = [defs |-> OpsKinds \ {LibKind}, mode |-> "ok"]
    /\ newNodeCalls = {}
    /\ lastResult = NoResult
    /\ OpsIdle
    /\ BatchIdle
    /\ CoerceIdle
    /\ SerialIdle
    /\ BridgeIdle
    /\ LateIdle
    /\ \E present \in SUBSET (DOMAIN LibResources) :
         libRun = [NoLib EXCEPT !.present = present]

\* create_batch_graph with one node spec that has a library_keyword: the
\* node is created, or the error is caught and the spec goes to the
\* failed list of the report
create_library_node ==
    /\ Len(libRun.resolutions) < MaxResolves
    /\ \E keyword \in Keywords, instanced \in BOOLEAN :
         LET r == ResolveLibUrl(libRun.cache, libRun.present, keyword)
             c == CreateLibraryNode(r, libRun.present, instanced)
         IN libRun' =
              [libRun EXCEPT
                 !.cache = r.cache,
                 !.resolutions = Append(@, [keyword |-> keyword, url |-> r.url,
                                            searched |-> r.searched]),
                 !.nodes = IF c.created = "" THEN @ ELSE Append(@, c.created),
                 !.last = [op |-> "create_library_node", keyword |-> keyword,
                           error |-> c.error, created |-> c.created,
                           count |-> IF c.created = "" THEN 0 ELSE 1]]
    /\ UNCHANGED << transportVars, createVars, opsVars, batchVars, coerceVars,
                    serialVars, bridgeVars, lateVars >>

\* the resources get_library_nodes lists: those whose identifier has the
\* filter in it, up to the limit
Listed(present, filter_text, limit) ==
    LET hits == IF filter_text = "" THEN present
                ELSE present \cap Matching(Lower(filter_text))
    IN IF limit <= 1 /\ hits # {} THEN { First(hits) } ELSE hits

RECURSIVE CacheListed(_, _)
\* self._lib_url_cache[rid.lower()] = url for each resource listed, in order
CacheListed(cache, listed) ==
    IF listed = {} THEN cache
    ELSE LET i == First(listed) IN
         CacheListed(CachePut(cache, Lower(LibResources[i].id), LibResources[i].url),
                     listed \ {i})

\* get_library_nodes(filter_text, limit)
get_library_nodes ==
    /\ \E filter_text \in {"", "noise", "perlin"}, limit \in {1, 200} :
         LET listed == Listed(libRun.present, filter_text, limit) IN
         libRun' = [libRun EXCEPT
                      !.cache = CacheListed(@, listed),
                      !.last = [op |-> "get_library_nodes", keyword |-> filter_text,
                                error |-> "", created |-> "",
                                count |-> Cardinality(listed)]]
    /\ UNCHANGED << transportVars, createVars, opsVars, batchVars, coerceVars,
                    serialVars, bridgeVars, lateVars >>

\* delete_graph(graph_identifier) on the user package: res.delete()
delete_graph ==
    /\ \E graph_identifier \in {"noise", "missing_graph"} :
         LET hit == { i \in libRun.present : LibResources[i].user
                                             /\ LibResources[i].id = graph_identifier }
         IN libRun' = [libRun EXCEPT
                         !.present = @ \ hit,
                         !.last = [op |-> "delete_graph", keyword |-> graph_identifier,
                                   error |-> IF hit = {} THEN "graph_not_found" ELSE "",
                                   created |-> "", count |-> 0]]
    /\ UNCHANGED << transportVars, createVars, opsVars, batchVars, coerceVars,
                    serialVars, bridgeVars, lateVars >>

NextLib ==
    \/ create_library_node
    \/ get_library_nodes
    \/ delete_graph

SpecLib == InitLib /\ [][NextLib]_vars

\* ------------------------------------------------------------------------
\* SpecBridge: the MCP bridge's _send (src/server/sd_mcp_bridge.py); a
\* behaviour is one call, a step is one pass of its retry loop
\* ------------------------------------------------------------------------
\* attempts after the first
MAX_RETRIES == 2

\* cmd_type of a tool call: the first argument of every _async_send
CmdTypes ==
    { "get_scene_info", "create_package", "create_graph", "delete_graph",
      "open_graph", "get_graph_info", "list_node_definitions", "create_node",
      "create_instance_node", "create_output_node", "connect_nodes",
      "disconnect_nodes", "set_parameter", "get_node_info", "delete_node",
      "move_node", "duplicate_node", "set_graph_output_size", "save_package",
      "get_library_nodes", "arrange_nodes", "execute_code",
      "create_batch_graph", "list_recipes", "get_recipe_info",
      "build_material_graph", "build_heightmap_graph", "apply_recipe",
      "list_documentation" }

\* "connect" in cmd_type, for the commands in use
NamesConnect(cmd_type) == cmd_type \in { "connect_nodes", "disconnect_nodes" }

\* how one _send_command_locked ends: sock.connect fails (ConnectionError
\* is raised, nothing was written), or the command is written and then the
\* plugin answers success, the plugin answers an error, recv times out,
\* the frame is empty, the payload is not JSON, or the socket fails
Outcomes ==
    { "connect_failed", "success", "plugin_error", "timeout", "empty",
      "invalid_json", "socket_error" }

\* what the error is about: the plugin's message, or the text of the
\* exception the socket raised
Details ==
    [ plugin_error |-> { "Node 'n1' not found in graph 'g'.",
                         "Unknown command: 'x'. Available: [..., 'connect_nodes', ...]" },
      socket_error |-> { "Connection closed while reading header.",
                         "[Errno 104] Connection reset by peer",
                         "Message too large: 4294967295 bytes" } ]

DetailsOf(outcome) ==
    IF outcome \in DOMAIN Details THEN Details[outcome] ELSE { "" }

\* the plugin's end of an attempt, CommandHandler.dispatch: a cmd_type
\* that is no key of HANDLERS is answered with the unknown-command error
\* and with nothing else, a registered one never is
PluginAnswers(cmd_type, outcome, detail) ==
    /\ outcome = "success" => cmd_type \in DOMAIN HANDLERS
    /\ outcome = "plugin_error" =>
          ( detail = "Unknown command: 'x'. Available: [..., 'connect_nodes', ...]"
            <=> cmd_type \notin DOMAIN HANDLERS )

\* "connect" in detail.lower(), for the texts in use
MentionsConnect(detail) ==
    detail \in { "Unknown command: 'x'. Available: [..., 'connect_nodes', ...]",
                 "Connection closed while reading header.",
                 "[Errno 104] Connection reset by peer" }

\* "Cannot connect" in msg or "connect" in msg.lower(), msg being the
\* message of the error response _send_command_locked returned: the
\* Timeout and Empty messages quote cmd_type, the Communication error
\* message quotes the exception, a plugin error is passed on as it is
IsConnectErr(cmd_type, outcome, detail) ==
    CASE outcome \in {"timeout", "empty"} -> NamesConnect(cmd_type)
      [] outcome \in {"plugin_error", "socket_error"} -> MentionsConnect(detail)
      [] OTHER -> FALSE

\* whether the loop of _send goes on to another attempt
Retries(cmd_type, outcome, detail, attempt) ==
    /\ attempt < MAX_RETRIES
    /\ \/ outcome = "connect_failed"
       \/ outcome # "success" /\ IsConnectErr(cmd_type, outcome, detail)

\* what _send returns when the loop ends with this attempt
Returned(outcome) ==
    CASE outcome = "success"        -> "result"
      [] outcome = "connect_failed" -> "Connection Error"
      [] OTHER -> "Error"

InitBridge ==
    /\ TransportInit
    /\ host = [defs |-> OpsKinds \ {LibKind}, mode |-> "ok"]
    /\ newNodeCalls = {}
    /\ lastResult = NoResult
    /\ OpsIdle
    /\ BatchIdle
    /\ CoerceIdle
    /\ SerialIdle
    /\ LibIdle
    /\ LateIdle
    /\ \E cmd_type \in CmdTypes :
         sendRun = [NoSend EXCEPT !.pc = "sending", !.cmd_type = cmd_type]

\* one pass of `for attempt in range(MAX_RETRIES + 1)`
send_attempt ==
    /\ sendRun.pc = "sending"
    /\ \E outcome \in Outcomes :
       \E detail \in DetailsOf(outcome) :
         /\ PluginAnswers(sendRun.cmd_type, outcome, detail)
         /\ LET again == Retries(sendRun.cmd_type, outcome, detail, sendRun.attempt)
                a     == [outcome |-> outcome, detail |-> detail,
                          written |-> outcome # "connect_failed"]
            IN sendRun' =
                 [sendRun EXCEPT
                    !.attempts = Append(@, a),
                    !.attempt = IF again THEN @ + 1 ELSE @,
                    !.pc = IF again THEN "sending" ELSE "done",
                    !.returned = IF again THEN "" ELSE Returned(outcome)]
    /\ UNCHANGED << transportVars, createVars, opsVars, batchVars, coerceVars,
                    serialVars, libVars, lateVars >>

NextBridge == send_attempt

SpecBridge == InitBridge /\ [][NextBridge]_vars

\* ------------------------------------------------------------------------
\* SpecPhase: create_batch_graph and apply_recipe statement by statement;
\* a behaviour is one command, a step is one pass of one of its loops
\* ------------------------------------------------------------------------
InitPhase ==
    /\ TransportInit
    /\ host = [defs |-> OpsKinds \ {LibKind}, mode |-> "ok"]
    /\ newNodeCalls = {}
    /\ lastResult = NoResult
    /\ OpsIdle
    /\ BatchIdle
    /\ CoerceIdle
    /\ SerialIdle
    /\ LibIdle
    /\ BridgeIdle
    /\ ConcIdle
    /\ \/ \E nodes \in NodeSpecLists, connections \in ConnSpecLists :
            phaseRun = [NoPhase EXCEPT !.cmd = "create_batch_graph",
                                       !.specs = nodes, !.conns = connections]
       \/ \E nodes \in RecipeNodeLists, connections \in RecipeConnLists :
            phaseRun = [NoPhase EXCEPT !.cmd = "apply_recipe",
                                       !.specs = nodes, !.conns = connections]

\* the handler up to its node loop: the package and the graph are found or
\* made, alias_map, created and failed start empty
batch_prepare ==
    /\ phaseRun.cmd # "none"
    /\ phaseRun.phase = "Init"
    /\ phaseRun' = [phaseRun EXCEPT !.phase = "CreatingNodes"]
    /\ UNCHANGED << transportVars, createVars, opsVars, batchVars, coerceVars,
                    serialVars, libVars, bridgeVars, concRun >>

\* one pass of `for spec in nodes`; spec.get raises for a spec that is not
\* an object and the handler ends there
create_node_step ==
    /\ phaseRun.phase = "CreatingNodes"
    /\ phaseRun.i <= Len(phaseRun.specs)
    /\ LET r    == phaseRun
           spec == r.specs[r.i]
           e    == NodeEntry(spec, r.alias_map, r.i)
       IN phaseRun' =
            IF spec.shape # "object"
            THEN [r EXCEPT !.phase = "Done", !.raised = "spec_not_object"]
            ELSE [r EXCEPT !.i = @ + 1,
                           !.nodes = Append(@, e),
                           !.alias_map = IF e.ends = "created"
                                         THEN Put(@, e.alias, e.node) ELSE @,
                           !.log = IF e.host THEN Append(@, "node") ELSE @]
    /\ UNCHANGED << transportVars, createVars, opsVars, batchVars, coerceVars,
                    serialVars, libVars, bridgeVars, concRun >>

\* a connection loop entered as soon as one node spec was processed
begin_wiring_early ==
    /\ phaseRun.phase = "CreatingNodes"
    /\ phaseRun.i > 1
    /\ phaseRun' = [phaseRun EXCEPT !.phase = "WiringConnections"]
    /\ UNCHANGED << transportVars, createVars, opsVars, batchVars, coerceVars,
                    serialVars, libVars, bridgeVars, concRun >>

\* the node loop is exhausted: conn_results = [] and the connection loop
begin_wiring ==
    /\ phaseRun.phase = "CreatingNodes"
    /\ phaseRun.i > Len(phaseRun.specs)
    /\ phaseRun' = [phaseRun EXCEPT !.phase = "WiringConnections"]
    /\ UNCHANGED << transportVars, createVars, opsVars, batchVars, coerceVars,
                    serialVars, libVars, bridgeVars, concRun >>

\* one pass of `for conn in connections`; conn.get raises for a spec that
\* is not an object, `fa not in alias_map` for an alias that is a list
wire_step ==
    /\ phaseRun.phase = "WiringConnections"
    /\ phaseRun.j <= Len(phaseRun.conns)
    /\ LET r     == phaseRun
           cspec == r.conns[r.j]
           w     == WireOne(r.cmd, cspec, r.nodes, r.alias_map)
       IN phaseRun' =
            IF cspec.shape = "not_object"
            THEN [r EXCEPT !.phase = "Done", !.raised = "conn_not_object"]
            ELSE IF cspec.shape = "list_alias"
            THEN [r EXCEPT !.phase = "Done", !.raised = "alias_unhashable"]
            ELSE [r EXCEPT !.j = @ + 1,
                           !.results = Append(@, w),
                           !.log = IF w.called THEN Append(@, "conn") ELSE @]
    /\ UNCHANGED << transportVars, createVars, opsVars, batchVars, coerceVars,
                    serialVars, libVars, bridgeVars, concRun >>

\* the connection loop is exhausted: the handler returns its dict
batch_return ==
    /\ phaseRun.phase = "WiringConnections"
    /\ phaseRun.j > Len(phaseRun.conns)
    /\ phaseRun' = [phaseRun EXCEPT !.phase = "Done"]
    /\ UNCHANGED << transportVars, createVars, opsVars, batchVars, coerceVars,
                    serialVars, libVars, bridgeVars, concRun >>

NextPhase ==
    \/ batch_prepare
    \/ create_node_step
    \/ begin_wiring
    \/ wire_step
    \/ batch_return

SpecPhase == InitPhase /\ [][NextPhase]_vars

\* ------------------------------------------------------------------------
\* SpecConc: tool calls of the bridge running _send in threads of their own
\* (asyncio.to_thread) against the plugin's one serve thread. Each call
\* sends a command whose type and answers do not mention "connect". Time
\* is not modelled: a timeout is a step that can be taken as long as what
\* is waited for has not happened
\* ------------------------------------------------------------------------
\* the socket of an attempt, as both ends see it: the request was written,
\* the response written by the plugin (0 for none, else the caller whose
\* command it answers), the plugin closed its end
NewSock == [sent |-> FALSE, reply |-> 0, closed |-> FALSE]

\* Substance Designer is running with the plugin loaded, or is not yet
InitConc ==
    /\ TransportInit
    /\ host = [defs |-> OpsKinds \ {LibKind}, mode |-> "ok"]
    /\ newNodeCalls = {}
    /\ lastResult = NoResult
    /\ OpsIdle
    /\ BatchIdle
    /\ CoerceIdle
    /\ SerialIdle
    /\ LibIdle
    /\ BridgeIdle
    /\ PhaseIdle
    /\ \E up \in BOOLEAN : concRun = [NoConc EXCEPT !.up = up]

\* what a step of SpecConc leaves alone
ConcFrame ==
    UNCHANGED << transportVars, createVars, opsVars, batchVars, coerceVars,
                 serialVars, libVars, bridgeVars, phaseRun >>

\* initializeSDPlugin: the listener is bound
sd_start ==
    /\ ~concRun.up
    /\ concRun' = [concRun EXCEPT !.up = TRUE]
    /\ ConcFrame

\* a tool is called: _async_send starts _send in a thread
tool_call(t) ==
    /\ concRun.pc[t] = "idle"
    /\ concRun' = [concRun EXCEPT !.pc[t] = "connect"]
    /\ ConcFrame

\* the loop of _send after an attempt failed for a connection error
AfterConnectError(r, t, text) ==
    IF r.attempt[t] < MAX_RETRIES
    THEN [r EXCEPT !.pc[t] = "sleep"]
    ELSE [r EXCEPT !.pc[t] = "done", !.returned[t] = text]

\* _send_command_locked up to the with statement: sock.connect succeeds
\* (the connection waits in the listener's backlog) or raises
\* ConnectionError; the lock is not touched
sock_connect(t) ==
    /\ concRun.pc[t] = "connect"
    /\ concRun' =
         IF concRun.up
         THEN [concRun EXCEPT !.conns[t] = NewSock,
                              !.backlog = Append(@, t),
                              !.pc[t] = "lock"]
         ELSE AfterConnectError(concRun, t, "Connection Error")
    /\ ConcFrame

\* a with statement that enters whether or not the lock is held
lock_acquire_unguarded(t) ==
    /\ concRun.pc[t] = "lock"
    /\ concRun' = [concRun EXCEPT !.lock = t, !.pc[t] = "send"]
    /\ ConcFrame

\* with _send_lock: entered once the lock is free
lock_acquire(t) ==
    /\ concRun.pc[t] = "lock"
    /\ concRun.lock = 0
    /\ concRun' = [concRun EXCEPT !.lock = t, !.pc[t] = "send"]
    /\ ConcFrame

\* _send_framed(sock, data_out): sendall hands the frame to the socket
send_framed(t) ==
    /\ concRun.pc[t] = "send"
    /\ concRun' = [concRun EXCEPT !.conns[t].sent = TRUE,
                                  !.pc[t] = "recv"]
    /\ ConcFrame

\* _recv_framed returns the response: the with block is left by return
recv_response(t) ==
    /\ concRun.pc[t] = "recv"
    /\ concRun.conns[t].reply # 0
    /\ concRun' = [concRun EXCEPT !.lock = 0, !.pc[t] = "done",
                                  !.returned[t] = "result"]
    /\ ConcFrame

\* _recv_framed raises "Connection closed while reading header.": the with
\* block is left by the return in except Exception, and _send, finding
\* "connect" in the message, sleeps and tries again
recv_closed(t) ==
    /\ concRun.pc[t] = "recv"
    /\ concRun.conns[t].reply = 0
    /\ concRun.conns[t].closed
    /\ concRun' = AfterConnectError([concRun EXCEPT !.lock = 0], t, "Error")
    /\ ConcFrame

\* socket.timeout after TIMEOUT seconds: the with block is left by the
\* return in except socket.timeout, and _send returns the error
recv_timeout(t) ==
    /\ concRun.pc[t] = "recv"
    /\ concRun.conns[t].reply = 0
    /\ ~concRun.conns[t].closed
    /\ concRun' = [concRun EXCEPT !.lock = 0, !.pc[t] = "done",
                                  !.returned[t] = "Error: Timeout"]
    /\ ConcFrame

\* time.sleep(RETRY_DELAY) returns and the loop of _send goes round
retry_wake(t) ==
    /\ concRun.pc[t] = "sleep"
    /\ concRun' = [concRun EXCEPT !.attempt[t] = @ + 1, !.pc[t] = "connect"]
    /\ ConcFrame

\* _serve_loop: listener.accept() returns the connection made first, a
\* connection being named by the caller that made it
serve_accept ==
    /\ concRun.serve = "accept"
    /\ concRun.backlog # << >>
    /\ concRun' = [concRun EXCEPT !.client = Head(concRun.backlog),
                                  !.backlog = Tail(@),
                                  !.serve = "read"]
    /\ ConcFrame

\* _handle_client: the request is read, the command run, the response
\* sent, the socket closed
serve_handle ==
    /\ concRun.serve = "read"
    /\ concRun.conns[concRun.client].sent
    /\ concRun' = [concRun EXCEPT
                     !.conns[concRun.client].reply = concRun.client,
                     !.conns[concRun.client].closed = TRUE,
                     !.serve = "accept"]
    /\ ConcFrame

\* _handle_client: no request within CLIENT_TIMEOUT seconds; the socket is
\* closed without a response
serve_read_timeout ==
    /\ concRun.serve = "read"
    /\ ~concRun.conns[concRun.client].sent
    /\ concRun' = [concRun EXCEPT !.conns[concRun.client].closed = TRUE,
                                  !.serve = "accept"]
    /\ ConcFrame

NextConc ==
    \/ sd_start
    \/ \E t \in Callers : tool_call(t)
    \/ \E t \in Callers : sock_connect(t)
    \/ \E t \in Callers : lock_acquire(t)
    \/ \E t \in Callers : send_framed(t)
    \/ \E t \in Callers : recv_response(t)
    \/ \E t \in Callers : recv_closed(t)
    \/ \E t \in Callers : recv_timeout(t)
    \/ \E t \in Callers : retry_wake(t)
    \/ serve_accept
    \/ serve_handle
    \/ serve_read_timeout

SpecConc == InitConc /\ [][NextConc]_vars

\* ------------------------------------------------------------------------
\* Fairness for the liveness claims
\* ------------------------------------------------------------------------
\* every blocking call of the serve thread is bounded: recv and sendall by
\* CLIENT_TIMEOUT, done.wait by COMMAND_TIMEOUT; the main thread is not
\* assumed to make progress (a handler may hang the host)
ServeStep ==
    \/ RecvHeader
    \/ RecvPayload
    \/ RecvFails
    \/ Parse
    \/ Emit
    \/ WaitDone
    \/ WaitTimeout

LiveSpec == Init /\ [][Next]_vars /\ WF_vars(ServeStep)

\* the owning context keeps processing: schedule() emits right after its
\* put (no blocking call lies between), the Qt event loop delivers every
\* queued invoke_signal to _execute, and every unit called returns
LiveMainSpec ==
    /\ Init /\ [][Next]_vars
    /\ WF_vars(Emit) /\ WF_vars(MainExecute) /\ WF_vars(MainHandlerEnd)

\* ------------------------------------------------------------------------
\* Claims
\* ------------------------------------------------------------------------
Count(seq, x) == Cardinality({ i \in 1..Len(seq) : seq[i] = x })

\* the request frame of the connection was received completely
FrameComplete(c) == c.payload # NoPayload

\* C1: every completely received request frame gets exactly one framed
\* response (status success, or status error with a message) on its
\* connection before the connection is closed, whatever went wrong while
\* handling it (the peer still being there to receive)
C1_EveryFrameAnswered ==
    (conn.closed /\ FrameComplete(conn) /\ ~conn.sendFailed)
        => /\ Len(conn.responses) = 1
           /\ \/ conn.responses[1].status = "success"
              \/ /\ conn.responses[1].status = "error"
                 /\ conn.responses[1].message # ""

\* C2: a command is dispatched only after a 4-byte header with
\* 1 <= L <= 100 MiB and exactly L payload bytes were read; with L = 0,
\* L over the cap or the peer closing early, nothing is dispatched, nothing
\* is written and the connection is closed
C2_DispatchOnlyAfterFullFrame ==
    /\ (conn.dispatched > 0 \/ conn.unit # 0 \/ FrameComplete(conn)
            \/ conn.responses # << >>)
         => /\ Len(conn.buf) = 4
            /\ conn.msg_len = conn.buf[1] * 16777216 + conn.buf[2] * 65536
                                + conn.buf[3] * 256 + conn.buf[4]
            /\ conn.msg_len >= 1
            /\ conn.msg_len <= 104857600
            /\ conn.got = conn.msg_len
    /\ (\/ (Len(conn.buf) = 4 /\ (conn.msg_len = 0 \/ conn.msg_len > 104857600))
        \/ conn.end = "peer_closed")
         => /\ conn.closed
            /\ conn.dispatched = 0
            /\ conn.unit = 0
            /\ conn.responses = << >>
            /\ \A u \in 1..Len(work) : work[u].conn # conn.id

C2_Witness ==
    /\ conn.closed
    /\ conn.buf = <<6, 64, 0, 1>>
    /\ conn.prev = "answered"

\* C3: newNode is never called with a kind that is not in the live set of
\* creatable kinds of the graph, in create_node, create_batch_graph and
\* apply_recipe, also when reading the live set fails or returns nothing
C3_NewNodeOnlyLiveKinds == newNodeCalls \subseteq host.defs

\* C4: a dispatch that times out returns a timeout error and does not
\* enqueue its unit again: every unit of work is enqueued exactly once and
\* executed at most once
C4_EnqueuedOnceExecutedAtMostOnce ==
    /\ \A u \in 1..Len(work) :
         /\ Count(enqLog, u) = 1
         /\ Count(execLog, <<"begin", u>>) <= 1
         /\ Count(queue, u) + Count(execLog, <<"begin", u>>) = 1
    /\ Len(enqLog) = Len(work)
    /\ (conn.end = "timeout" /\ conn.responses # << >>)
         => /\ conn.responses[1].status = "error"
            /\ conn.responses[1].message = "Main thread dispatch timed out"

C4_Witness ==
    /\ conn.prev = "timeout"
    /\ conn.end = "timeout"
    /\ Len(enqLog) = 2
    /\ Count(execLog, <<"begin", 1>>) = 1
    /\ Count(execLog, <<"begin", 2>>) = 1

\* C5: units of work are executed one at a time and in the order they were
\* enqueued; no unit begins before the previously enqueued unit has
\* finished, also when that unit has timed out for its caller
C5_SerialInEnqueueOrder ==
    LET begins == SelectSeq(execLog, LAMBDA e : e[1] = "begin") IN
    /\ Len(begins) <= Len(enqLog)
    /\ \A i \in 1..Len(begins) : begins[i][2] = enqLog[i]
    /\ \A i \in 1..Len(execLog) :
         /\ (execLog[i][1] = "begin" /\ i > 1) => execLog[i - 1][1] = "end"
         /\ execLog[i][1] = "end"
              => (i > 1 /\ execLog[i - 1] = <<"begin", execLog[i][2]>>)
    /\ mainUnit # 0 => execLog[Len(execLog)] = <<"begin", mainUnit>>

C5_Witness ==
    /\ conn.id = 2
    /\ conn.prev = "timeout"
    /\ execLog = << <<"begin", 1>>, <<"end", 1>>, <<"begin", 2>>, <<"end", 2>> >>
    /\ Len(calls) = 2

\* C6: every handler body runs on the main thread only; the serve thread
\* hands the dispatch to the bridge and waits
C6_HandlersOnMainThreadOnly ==
    /\ \A i \in 1..Len(calls) :
         /\ calls[i].thread = "MainThread"
         /\ calls[i].unit \in 1..Len(work)
         /\ Count(enqLog, calls[i].unit) >= 1
    /\ (graphVer > 0 \/ lib_url_cache # {}) => calls # << >>

C6_Witness ==
    /\ Len(calls) = 2
    /\ conn.id = 2
    /\ conn.closed
    /\ conn.responses # << >>
    /\ conn.responses[1].status = "success"

\* a well-formed command of a registered kind
WellFormedKnown(p) ==
    /\ p.json = "object"
    /\ p.type.kind = "string"
    /\ p.type.name \in DOMAIN HANDLERS
    /\ p.params = "match"

\* C7: whatever way connections end, the serve loop gets back to accepting,
\* and a connection that carries a well-formed known command gets its
\* response (unless the peer is gone when it is sent)
C7_ServeLoopRecovers ==
    /\ (pc \notin {"accept", "stopped"}) ~> (pc = "accept" /\ conn.closed)
    /\ \A k \in 1..MaxConns :
         (conn.id = k /\ ~conn.closed /\ WellFormedKnown(conn.payload))
            ~> (conn.id = k /\ conn.closed
                  /\ (conn.sendFailed \/ Len(conn.responses) = 1))

C7_Witness ==
    /\ conn.id = 2
    /\ conn.prev \in {"zero_length", "too_large", "invalid_json", "timeout",
                      "read_timeout", "reset", "peer_closed"}
    /\ running
    /\ pc = "accept"
    /\ WellFormedKnown(conn.payload)
    /\ Len(conn.responses) = 1
    /\ conn.responses[1].status = "success"

\* C8: on each connection the server reads at most one frame, dispatches at
\* most one command, writes at most one response and closes the connection
\* on every path; bytes after the first frame are never processed
C8_OneFramePerConnection ==
    /\ Len(conn.buf) <= 4
    /\ conn.msg_len >= 0 => conn.got <= conn.msg_len
    /\ conn.dispatched <= 1
    /\ Len(conn.responses) <= 1
    /\ \A k \in 1..nconn :
         Cardinality({ u \in 1..Len(work) : work[u].conn = k }) <= 1
    /\ pc \in {"accept", "stopped"} <=> conn.closed

C8_Witness ==
    /\ conn.id = 2
    /\ conn.closed
    /\ conn.dispatched = 1
    /\ Len(conn.responses) = 1
    /\ Len(work) = 2

NotAKey(t) == ~(t.kind = "string" /\ t.name \in DOMAIN HANDLERS)

\* C10: dispatching a command whose type is not a key of the registry
\* invokes no handler, changes no graph or cache state and yields an error
\* whose message lists every registered command kind
C10_UnknownTypeListsKinds ==
    [][ (signals' = signals - 1 /\ queue # << >> /\ NotAKey(work[Head(queue)].type))
          => /\ calls' = calls
             /\ graphVer' = graphVer
             /\ lib_url_cache' = lib_url_cache
             /\ Head(queue) \in done'
             /\ result_holder'[Head(queue)].exc # NoErr
             /\ result_holder'[Head(queue)].exc.available = DOMAIN HANDLERS ]_vars


\* C11: when dispatch gives up waiting for a unit, the caller gets an error
\* response and the unit stays where it is: it is still queued or running
\* afterwards, nothing of the bridge is touched, and a unit the main thread
\* has entered always ends as done, timed out or not
C11_TimedOutUnitStaysQueued ==
    [][ /\ (pc = "wait" /\ pc' = "accept" /\ conn.unit \notin done)
            => /\ conn'.end = "timeout"
               /\ conn'.closed
               /\ \A i \in 1..Len(conn'.responses) :
                     /\ conn'.responses[i].status = "error"
                     /\ conn'.responses[i].message
                            = "Main thread dispatch timed out"
               /\ Count(queue', conn.unit) + (IF mainUnit' = conn.unit THEN 1 ELSE 0) = 1
               /\ << queue, signals, work, done, result_holder, mainUnit >>'
                     = << queue, signals, work, done, result_holder, mainUnit >>
        /\ (mainUnit # 0 /\ mainUnit' # mainUnit)
            => /\ mainUnit \in done'
               /\ graphVer' >= graphVer
      ]_vars

\* a unit whose caller timed out was run to completion afterwards: its
\* result is in its holder, the graph changed, and the only thing its
\* caller was sent is the timeout error
C11_Witness ==
    /\ nconn = 1
    /\ conn.end = "timeout"
    /\ conn.unit \in done
    /\ result_holder[conn.unit].exc = NoErr
    /\ result_holder[conn.unit].result = conn.unit
    /\ graphVer = 1
    /\ Len(conn.responses) = 1
    /\ conn.responses[1].status = "error"

\* C12: while the Qt invoker is missing, a dispatch from the serve thread
\* enqueues nothing and waits for nothing, and the client of every
\* dispatched command is sent the error "Qt invoker unavailable"
C12_NoInvokerFailsAtOnce ==
    ~invoker =>
        /\ queue = << >> /\ work = << >> /\ enqLog = << >>
        /\ signals = 0 /\ calls = << >> /\ graphVer = 0
        /\ pc \notin {"emit", "wait"}
        /\ conn.dispatched > 0 =>
              /\ conn.closed
              /\ conn.end = "invoker_unavailable"
              /\ ~conn.sendFailed =>
                    /\ Len(conn.responses) = 1
                    /\ conn.responses[1].status = "error"
                    /\ conn.responses[1].message = "Qt invoker unavailable"

\* a well-formed command arrived while the invoker was missing and its
\* client was answered
C12_Witness ==
    /\ ~invoker
    /\ conn.dispatched = 1
    /\ WellFormedKnown(conn.payload)
    /\ Len(conn.responses) = 1

\* C13: a connection handed to newPropertyConnectionFromId names, for a
\* source kind of the static port table, one of that kind's output ports,
\* and, for a target kind of the table, one of that kind's input ports
C13_StaticPortsChecked ==
    lastCall.api = "newPropertyConnectionFromId" =>
        /\ lastCall.node \in DOMAIN ATOMIC_PORTS
              => lastCall.port \in Range(ATOMIC_PORTS[lastCall.node].outputs)
        /\ lastCall.to_node \in DOMAIN ATOMIC_PORTS
              => lastCall.to_port \in Range(ATOMIC_PORTS[lastCall.to_node].inputs)

\* C14: no connection handed to newPropertyConnectionFromId has a system
\* parameter as its target input, whatever the target node reports
C14_NoSystemParamTarget ==
    lastCall.api = "newPropertyConnectionFromId"
        => lastCall.to_port \notin SYSTEM_PARAMS

\* the SDType id of a property of a node of this kind
PropertyTypes(kind) == ParamTypes(kind) @@ AnnotTypes(kind)

\* C15: a value handed to a property setter of the host is boxed as the
\* property's own type whenever that type is one of the primitive types
C15_BoxedAsPropertyType ==
    ( /\ lastCall.api \in {"setInputPropertyValueFromId",
                           "setAnnotationPropertyValueFromId"}
      /\ lastCall.port \in DOMAIN PropertyTypes(lastCall.node)
      /\ PrimitiveBox(PropertyTypes(lastCall.node)[lastCall.port]) # "" )
        => lastCall.boxed = PrimitiveBox(PropertyTypes(lastCall.node)[lastCall.port])

SingleOps ==
    { "create_node", "create_instance_node", "create_output_node",
      "connect_nodes", "smart_connect", "disconnect_nodes", "set_parameter",
      "delete_node", "move_node", "duplicate_node" }

\* the not-found errors (graph, node, resource, definition, property) and
\* the port error
NotFoundOrPort ==
    { "graph_not_found", "node_not_found", "resource_not_found",
      "definition_not_found", "property_not_found", "port_not_found" }

BatchRan ==
    batchRun.cmd \in {"create_batch_graph", "apply_recipe"}
    /\ batchRun.cause # "recipe_not_found"

\* C17: in every batch request each node spec and each connection spec is
\* attempted once and counted once in the report: nodes_created +
\* nodes_failed is the number of node specs, connections_ok +
\* connections_failed the number of connection specs
C17_EverySpecCountedOnce ==
    BatchRan =>
        /\ Len(batchRun.nodes) = Len(batchRun.specs)
        /\ Len(batchRun.conn_results) = Len(batchRun.conns)
        /\ batchRun.report.present
        /\ batchRun.report.nodes_created + batchRun.report.nodes_failed
              = Len(batchRun.specs)
        /\ batchRun.report.connections_ok + batchRun.report.connections_failed
              = Len(batchRun.conns)

\* C18: whatever node spec or connection spec fails, a spec that is not
\* an object and a malformed alias included, the batch command returns a
\* success response with the failure report
C18_SpecFailureKeepsBatch ==
    BatchRan => (batchRun.outcome = "returned" /\ batchRun.cause = "")

\* the node specs that ended in created
CreatedSpecs == { i \in 1..Len(batchRun.nodes) : batchRun.nodes[i].ends = "created" }

\* the spec can be created: its kind or resource resolves, its position is valid
Creatable(spec) == BatchSpec(spec).ends = "created" /\ spec.position = "ok"

\* C19: the created nodes are registered under pairwise distinct aliases,
\* alias_map has one entry for each of them, and a spec whose alias is
\* taken is created under its alias plus a numeric suffix instead of failing
C19_AliasesDistinct ==
    BatchRan =>
        /\ \A i, k \in CreatedSpecs :
              i # k => batchRun.nodes[i].alias # batchRun.nodes[k].alias
        /\ Cardinality(batchRun.alias_map) = Cardinality(CreatedSpecs)
        /\ \A i \in CreatedSpecs :
              [alias |-> batchRun.nodes[i].alias, node |-> batchRun.nodes[i].node]
                  \in batchRun.alias_map
        /\ batchRun.report.present =>
              /\ batchRun.report.node_map = batchRun.alias_map
              /\ Cardinality(batchRun.report.node_map) = batchRun.report.nodes_created
        /\ \A i \in 1..Len(batchRun.nodes) :
              Creatable(batchRun.specs[i]) =>
                 /\ i \in CreatedSpecs
                 /\ \/ batchRun.nodes[i].alias = batchRun.nodes[i].orig
                    \/ \E n \in 1..Len(batchRun.nodes) :
                          batchRun.nodes[i].alias
                              = batchRun.nodes[i].orig \o "_" \o ToString(n)

\* specs with the aliases a, a, a_1: the second is registered as a_1, the
\* suffixed alias the third one asks for, and the third as a_1_1
C19_Witness ==
    /\ batchRun.report.present
    /\ batchRun.report.nodes_created = 3
    /\ batchRun.nodes[2].orig = "a" /\ batchRun.nodes[2].alias = "a_1"
    /\ batchRun.nodes[3].orig = "a_1" /\ batchRun.nodes[3].alias = "a_1_1"

\* C20: in create_batch_graph a connection spec with an alias that is not
\* registered gets one failed entry naming that alias and no host
\* connection call; the specs with registered aliases still go to
\* _safe_connect, and the counts of the report still add up
C20_UnresolvedAliasReported ==
    batchRun.cmd = "create_batch_graph" =>
        /\ \A j \in 1..Len(batchRun.conn_results) :
              LET c       == batchRun.conns[j]
                  r       == batchRun.conn_results[j]
                  aliases == Aliases(batchRun.alias_map)
              IN IF c.from \notin aliases \/ c.to \notin aliases
                 THEN /\ ~r.success
                      /\ ~r.called
                      /\ r.error = (IF c.from \notin aliases THEN "from_not_found"
                                    ELSE "to_not_found")
                      /\ r.names = (IF c.from \notin aliases THEN c.from ELSE c.to)
                 ELSE r.called \/ r.error = "port_not_found"
        /\ batchRun.report.present =>
              /\ batchRun.report.nodes_created = Cardinality(CreatedSpecs)
              /\ batchRun.report.connections_failed
                    = Cardinality({ j \in 1..Len(batchRun.conn_results) :
                                      ~batchRun.conn_results[j].success })
              /\ batchRun.report.connections_ok + batchRun.report.connections_failed
                    = Len(batchRun.conns)

\* a connection from an alias nobody registered, followed by one between
\* two registered aliases: the first is reported failed, the second is made
C20_Witness ==
    /\ batchRun.cmd = "create_batch_graph"
    /\ batchRun.report.present
    /\ batchRun.report.nodes_created = 2
    /\ Len(batchRun.conn_results) = 2
    /\ batchRun.conn_results[1].error = "from_not_found"
    /\ batchRun.conn_results[1].names = "zz"
    /\ batchRun.conn_results[2].success
    /\ batchRun.report.connections_ok = 1
    /\ batchRun.report.connections_failed = 1

\* ------------------------------------------------------------------------
\* Type inference and coercion (SpecCoerce)
\* ------------------------------------------------------------------------
\* the parameter was inferred, coerced and boxed (not a "$" parameter)
ParamDone == paramRun.pc = "done" /\ paramRun.param_id # "$outputsize"

IntTypes == { "int", "int2", "int3", "int4" }

\* _infer_type of the value of the run: Float for a bare int, Bool for a
\* bool, Float2/3/4 for a list of 2/3/4
InfersAsClaimed ==
    /\ paramRun.value = "integer" => InferType(paramRun.value) = "float"
    /\ paramRun.value = "bool" => InferType(paramRun.value) = "bool"
    /\ paramRun.value = "list2" => InferType(paramRun.value) = "float2"
    /\ paramRun.value = "list3" => InferType(paramRun.value) = "float3"
    /\ paramRun.value = "list4" => InferType(paramRun.value) = "float4"

\* the param_spec is an envelope whose "type" names an int type
IntEnvelope == paramRun.form = "envelope" /\ Lower(paramRun.tag) \in IntTypes

IntOf(float_type) ==
    CASE float_type = "float"  -> "int"
      [] float_type = "float2" -> "int2"
      [] float_type = "float3" -> "int3"
      [] float_type = "float4" -> "int4"
      [] OTHER -> float_type

\* C30: when the property's SDType id is no exact primitive, is not
\* namespaced, and has "int" but not "float" in its name, every inferred
\* float type becomes the int type of the same arity.
C30_FloatsBecomeInts ==
    ( /\ ParamDone
      /\ paramRun.tag = ""
      /\ paramRun.sd_type_id # ""
      /\ PrimitiveBox(paramRun.sd_type_id) = ""
      /\ ~Namespaced(Lower(paramRun.sd_type_id))
      /\ HasInt(Lower(paramRun.sd_type_id))
      /\ ~HasFloat(Lower(paramRun.sd_type_id)) )
    => paramRun.ptype = IntOf(InferType(paramRun.value))


\* ------------------------------------------------------------------------
\* Serializing the response (SpecSerial)
\* ------------------------------------------------------------------------
\* C28: a response whose result holds NaN, +Infinity or -Infinity is sent
\* as valid JSON with a large finite number in the place of each of them;
\* the tokens NaN and Infinity are never written and serializing never
\* raises.
C28_NonFiniteBecomeSentinels ==
    wireRun.pc = "done" =>
        /\ wireRun.outcome = "sent"
        /\ \A i \in DOMAIN wireRun.result :
              /\ wireRun.sent[i] \notin { "NaN", "Infinity", "-Infinity" }
              /\ wireRun.result[i] \in { "nan", "inf", "neg_inf" }
                    => wireRun.sent[i] \in { "1e308", "-1e308" }


\* ------------------------------------------------------------------------
\* The library resolver and its cache (SpecLib)
\* ------------------------------------------------------------------------
\* C23: for every keyword, a second resolution of the same keyword returns
\* the locator the first returned and does not search the packages.
C23_SecondResolutionFromCache ==
    \A i, j \in DOMAIN libRun.resolutions :
        (i < j /\ libRun.resolutions[i].keyword = libRun.resolutions[j].keyword)
        => /\ libRun.resolutions[j].url = libRun.resolutions[i].url
           /\ ~libRun.resolutions[j].searched

\* C24: once a keyword has resolved, no later resolution of it, in any
\* letter case and after any commands in between, reports not-found.
C24_ResolvedStaysResolved ==
    \A i, j \in DOMAIN libRun.resolutions :
        ( /\ i < j
          /\ Lower(libRun.resolutions[i].keyword) = Lower(libRun.resolutions[j].keyword)
          /\ libRun.resolutions[i].url # "" )
        => libRun.resolutions[j].url # ""

\* a keyword resolved, its graph was deleted, and the keyword in another
\* letter case resolved again from the cache
C24_Witness ==
    \E i, j \in DOMAIN libRun.resolutions :
        /\ i < j
        /\ libRun.resolutions[i].keyword # libRun.resolutions[j].keyword
        /\ Lower(libRun.resolutions[i].keyword) = Lower(libRun.resolutions[j].keyword)
        /\ libRun.resolutions[i].url # ""
        /\ libRun.resolutions[j].url # ""
        /\ ~libRun.resolutions[j].searched
        /\ libRun.present \cap Matching(Lower(libRun.resolutions[j].keyword)) = {}

\* C25: when no loaded resource matches the keyword, no node is created,
\* no other resource is instanced, and the error is the not-found error
\* that names get_library_nodes (a failed node spec of the batch).
C25_MissFailsWithGuidance ==
    ( /\ libRun.last.op = "create_library_node"
      /\ libRun.present \cap Matching(Lower(libRun.last.keyword)) = {} )
    => /\ libRun.last.created = ""
       /\ libRun.last.count = 0
       /\ libRun.last.error = "not_found_use_get_library_nodes"


\* ------------------------------------------------------------------------
\* The report and the graph of a batch command (SpecBatch)
\* ------------------------------------------------------------------------
\* one of the four batch commands got as far as its node specs
AnyBatchRan ==
    /\ batchRun.cmd \in { "create_batch_graph", "build_material_graph",
                          "build_heightmap_graph", "apply_recipe" }
    /\ batchRun.cause # "recipe_not_found"

\* C21: each of the four batch commands returns the full report: the four
\* counts, the alias map, and the detail of every failure: one entry with
\* alias and error for each failed node spec, one entry with the spec or
\* its aliases and the error for each failed connection spec.
C21_FullReport ==
    AnyBatchRan =>
        /\ batchRun.report.present
        /\ { "nodes_failed", "connections_ok", "connections_failed", "node_map",
             "failed_nodes", "connections" } \subseteq batchRun.report.keys
        /\ Len(batchRun.report.failed_nodes) = batchRun.report.nodes_failed
        /\ \A i \in DOMAIN batchRun.report.failed_nodes :
              batchRun.report.failed_nodes[i].error # ""
        /\ Len(batchRun.report.connections) = Len(batchRun.conns)
        /\ \A j \in DOMAIN batchRun.report.connections :
              ~batchRun.report.connections[j].success
                  => batchRun.report.connections[j].error # ""

\* C22: what a batch command created stays in the graph when a later
\* node spec or connection spec fails: every node it created and every
\* connection it made is in the graph when the command ends, and the
\* graph is kept.
C22_NoRollback ==
    AnyBatchRan =>
        /\ batchRun.graph.kept
        /\ \A i \in 1..Len(batchRun.nodes) :
              batchRun.nodes[i].ends = "created" => i \in batchRun.graph.nodes
        /\ \A j \in 1..Len(batchRun.conn_results) :
              batchRun.conn_results[j].success => j \in batchRun.graph.conns

\* a node was created and a connection made before a later node spec and
\* a later connection spec failed, and both are in the graph
C22_Witness ==
    /\ AnyBatchRan
    /\ Len(batchRun.nodes) = 3
    /\ batchRun.nodes[1].ends = "created"
    /\ batchRun.nodes[2].ends = "created"
    /\ batchRun.nodes[3].ends = "failed"
    /\ Len(batchRun.conn_results) = 2
    /\ batchRun.conn_results[1].success
    /\ ~batchRun.conn_results[2].success
    /\ {1, 2} \subseteq batchRun.graph.nodes
    /\ 1 \in batchRun.graph.conns


\* ------------------------------------------------------------------------
\* The retry loop of the bridge (SpecBridge)
\* ------------------------------------------------------------------------
\* C27: _send sends a command again only after a failure to establish the
\* TCP connection: every attempt that was followed by another one ended
\* with nothing written, whatever the command type and the error message.
C27_ResendOnlyAfterConnectFailure ==
    \A i \in DOMAIN sendRun.attempts :
        i < Len(sendRun.attempts) =>
            /\ sendRun.attempts[i].outcome = "connect_failed"
            /\ ~sendRun.attempts[i].written


\* C36: once a keyword has resolved to a locator, every later resolution
\* of that keyword returns the same locator, whatever resolutions and
\* get_library_nodes listings ran in between.
C36_ResolvedLocatorStable ==
    \A i, j \in DOMAIN libRun.resolutions :
        ( /\ i < j
          /\ libRun.resolutions[i].keyword = libRun.resolutions[j].keyword
          /\ libRun.resolutions[i].url # "" )
        => libRun.resolutions[j].url = libRun.resolutions[i].url

\* C37: after a batch command every node it added to the host graph is
\* recorded in the response: as many nodes were added as nodes_created
\* says, each has an entry in the alias map, and a node spec reported as
\* failed left no node in the graph.
C37_AddedNodesRecorded ==
    AnyBatchRan =>
        /\ batchRun.report.present
        /\ Cardinality(batchRun.graph.nodes) = batchRun.report.nodes_created
        /\ \A i \in batchRun.graph.nodes :
              /\ batchRun.nodes[i].ends = "created"
              /\ \E e \in batchRun.report.node_map : e.node = batchRun.nodes[i].node


\* C38: a response sent on a connection carries the result or the error
\* of the command received on that connection: a unit that timed out for
\* an earlier caller and completes later is never answered to a later
\* command.
C38_ResponseOfOwnCommand ==
    \A i \in DOMAIN conn.responses :
        LET r == conn.responses[i] IN
        /\ r.status = "success" =>
              /\ r.result \in DOMAIN work
              /\ work[r.result].conn = conn.id
        /\ r.message \in {"handler raised", "TypeError", "Unknown command",
                          "unhashable type"} =>
              /\ conn.unit \in done
              /\ result_holder[conn.unit].exc.message = r.message

\* the first command timed out, its unit ran to its end later, and the
\* second connection was answered with the result of its own unit
C38_Witness ==
    /\ conn.id = 2
    /\ conn.prev = "timeout"
    /\ 1 \in done
    /\ result_holder[1].exc = NoErr
    /\ conn.unit = 2
    /\ conn.responses # << >>
    /\ conn.responses[1].status = "success"
    /\ conn.responses[1].result = 2


\* C40: every unit put on the invoker's queue is eventually taken and
\* called by the main thread, provided the main thread keeps delivering
\* queued signals and every unit returns.
C40_EnqueuedUnitRuns ==
    \A u \in 1..MaxConns :
        [](Count(queue, u) > 0 =>
             <>(\E i \in DOMAIN execLog : execLog[i] = <<"begin", u>>))

\* two units were in the queue together (the first had timed out for its
\* caller) and both have been called
C40_Witness ==
    /\ enqLog = <<1, 2>>
    /\ conn.prev = "timeout"
    /\ queue = << >>
    /\ \E i, j \in DOMAIN execLog :
          /\ i < j
          /\ execLog[i] = <<"begin", 1>>
          /\ execLog[j] = <<"begin", 2>>


\* C31: a parameter whose property is not among the node's input or
\* annotation properties (or whose property listing failed) is boxed with
\* the inferred type and a write to the node is still attempted.
C31_UnknownPropertyStillWritten ==
    ( /\ ParamDone
      /\ paramRun.category = "none"
      /\ paramRun.result # "error" )
    => /\ paramRun.ptype = (IF paramRun.tag # "" THEN paramRun.tag
                            ELSE InferType(paramRun.value))
       /\ paramRun.boxed = MakeSdValue(paramRun.ptype, paramRun.value)
       /\ paramRun.setter # ""


\* C32: a parameter that fails to apply during a batch build (boxing
\* error, setter failure, property skipped) is reported per property in
\* the command's response, and fails neither its node spec nor the
\* request.
C32_ParamFailureReported ==
    AnyBatchRan =>
      \A i \in DOMAIN batchRun.nodes :
        \A pr \in batchRun.nodes[i].params :
          pr.result # "ok" =>
            /\ batchRun.nodes[i].ends = "created"
            /\ batchRun.report.present
            /\ \E k \in DOMAIN batchRun.report.nodes :
                  LET e == batchRun.report.nodes[k] IN
                  /\ e.alias = batchRun.nodes[i].alias
                  /\ "parameters" \in DOMAIN e
                  /\ pr \in e.parameters


\* C39: every command type a bridge tool sends is a key of the plugin's
\* handler registry, so no tool call is answered with the plugin's
\* unknown-command error.
C39_EveryToolCommandRegistered ==
    \A i \in DOMAIN sendRun.attempts :
        sendRun.attempts[i].written =>
          /\ sendRun.cmd_type \in DOMAIN HANDLERS
          /\ ~( /\ sendRun.attempts[i].outcome = "plugin_error"
                /\ sendRun.attempts[i].detail =
                     "Unknown command: 'x'. Available: [..., 'connect_nodes', ...]" )


\* the order of the phases of a batch command
PhaseRank(phase) ==
    CASE phase = "Init" -> 0
      [] phase = "CreatingNodes" -> 1
      [] phase = "WiringConnections" -> 2
      [] OTHER -> 3

\* C33: within one batch request no connection is attempted until every
\* node spec has been processed and no node is created after the first
\* connection attempt: the request moves Init, CreatingNodes,
\* WiringConnections, Done in that order and never goes back.
C33_NodesBeforeConnections ==
    [][ /\ PhaseRank(phaseRun'.phase) >= PhaseRank(phaseRun.phase)
        /\ Len(phaseRun'.results) > Len(phaseRun.results) =>
              /\ phaseRun.phase = "WiringConnections"
              /\ phaseRun.i > Len(phaseRun.specs)
        /\ Len(phaseRun'.nodes) > Len(phaseRun.nodes) =>
              /\ phaseRun.phase = "CreatingNodes"
              /\ phaseRun.results = << >>
        /\ \A a, b \in DOMAIN phaseRun'.log :
              a < b /\ phaseRun'.log[a] = "conn" => phaseRun'.log[b] # "node"
      ]_vars

\* a request that created two nodes and then wired them has returned
C33_Witness ==
    /\ phaseRun.phase = "Done"
    /\ phaseRun.raised = ""
    /\ phaseRun.log = << "node", "node", "conn" >>


\* the callers inside the with block of _send_command_locked
InCycle == { t \in Callers : concRun.pc[t] \in {"send", "recv"} }

\* C34: across concurrent tool calls at most one send/receive cycle with
\* the plugin is in progress, and the send lock is released on every exit
\* path and is never held during connection establishment, during the
\* retry delay or across retry attempts.
C34_OneCycleAtATime ==
    /\ Cardinality(InCycle) <= 1
    /\ \A t \in Callers : concRun.lock = t <=> t \in InCycle

\* one call is inside its cycle in a second attempt, after its first
\* attempt left the with block on an error, while another call that has
\* connected waits for the lock
C34_Witness ==
    \E t, u \in Callers :
        /\ concRun.pc[t] = "recv"
        /\ concRun.attempt[t] > 0
        /\ concRun.lock = t
        /\ concRun.pc[u] = "lock"

\* C35: when two tool calls run concurrently, each connecting before it
\* takes the send lock, both complete with the response to their own
\* command without waiting for a timeout: the serve thread is never
\* blocked reading the request of an accepted connection whose sender
\* waits for the send lock held by the other call.
C35_ServeNeverReadsLockedOutSender ==
    /\ \A t \in Callers :
          concRun.returned[t] = "result" =>
              concRun.conns[t].reply = t
    /\ ~( /\ concRun.serve = "read"
          /\ ~concRun.conns[concRun.client].sent
          /\ concRun.pc[concRun.client] = "lock"
          /\ concRun.lock \notin {0, concRun.client} )

====
